---- MODULE Spec2Model ----
(***************************************************************************)
(* onehitter: single-use one-time-password engine.                         *)
(*                                                                         *)
(* The model follows src/src/onehitter.ts (OneHitter.create / validate /   *)
(* validateStatus), src/src/db/sqlite-functions.ts (the embedded backend), *)
(* src/src/db/mongo-adapter.ts and src/src/db/index.ts (adapter            *)
(* selection), src/src/db/shared.ts (hashing) and src/src/rate-limiter.ts  *)
(* (NoopRateLimiter, InMemoryRateLimiter).                                 *)
(*                                                                         *)
(* Every `await` of validateStatus is a point where other calls may run,   *)
(* so a call is a small process: beforeValidate, the adapter call, the     *)
(* SELECT, the DELETE (or the one findOneAndDelete), the limiter hook.     *)
(* Time is Date.now() in milliseconds; it only moves by the Tick action.   *)
(***************************************************************************)
EXTENDS Integers, Sequences, FiniteSets, TLC

VARIABLES
    env,        \* process.env, as read at the call sites (fixed during a run)
    hasMongo,   \* whether the application owns a MongoClient it can pass in
    limiter,    \* OneHitter.limiter: which RateLimiter and its options
    attempts,   \* InMemoryRateLimiter.attempts: contact -> bucket
    clock,      \* Date.now()
    otp,        \* the rows of the SQLite table otp
    lastID,     \* SQLite AUTOINCREMENT counter of table otp
    coll,       \* the documents of the MongoDB collection
    lastOid,    \* number of _id values MongoDB has handed out
    calls,      \* the validateStatus calls in flight or last returned, per slot
    created,    \* history: attempt -> number of create calls completed
    born,       \* history: attempt -> createdAt of the record created last
    won,        \* history: attempt -> number of calls the adapter answered ok/expired
    okSeen,     \* history: attempts for which some call has returned ok
    expiredSeen, \* history: attempts for which some call has returned expired
    failed,     \* history: contact -> the failures counted since the last reset
    asked,      \* the last answer a limiter used on its own gave to beforeValidate
    cleared,    \* history of a limiter used on its own: contact -> since its last onSuccess
    createLog,  \* history: how create calls were routed and what made them reject
    maker,      \* OneHitter.make: its configuration, its position and the code so far
    auth,       \* OtpAuthService: its authenticateUser calls and the events it emitted
    mail,       \* the sender: its configuration, the send calls and the mails handed over
    legacy,     \* the legacy MongoDB functions: the collection and the otpValidate calls
    ensure      \* ensureCreatedAtTTLIndex: the collection's indexes and the call

vars == <<env, hasMongo, limiter, attempts, clock, otp, lastID, coll, lastOid,
          calls, created, born, won, okSeen, expiredSeen, failed, asked, cleared,
          createLog, maker, auth, mail, legacy, ensure>>

---------------------------------------------------------------------------
(* Bounds of the exploration *)

\* number of validateStatus calls that can be in flight together
NCalls == 2
\* number of authenticateUser calls in one run
MaxAuthCalls == 3
\* number of send calls in one run
MaxSends == 2
\* number of records create may insert in one run
MaxCreates == 2
\* number of clock steps in one run
MaxTicks == 2
\* milliseconds the clock advances in one step
TickMs == 1000
\* short pauses (half a cooldown each)
MaxPauses == 2
\* failures a bucket holds at most
MaxFailures == 6

Slots == 1..NCalls
T0 == TickMs
Horizon == T0 + MaxTicks * TickMs

Contacts == {"a@b.com"}
Codes == {"654321", "000000"}
Attempts == [contact : Contacts, otp : Codes]

\* optional values: undefined, or one value
Undefined == <<>>
Some(x) == <<x>>
IsDefined(o) == o # <<>>
ValueOf(o) == o[1]

---------------------------------------------------------------------------
(* src/src/db/shared.ts *)

\* Number(text) for the texts an environment variable takes in the model
NumberOfText(text) ==
    CASE text = "1"  -> [finite |-> TRUE, n |-> 1]
      [] text = "2"  -> [finite |-> TRUE, n |-> 2]
      [] text = "0"  -> [finite |-> TRUE, n |-> 0]
      [] text = ""   -> [finite |-> TRUE, n |-> 0]
      [] text = "-1" -> [finite |-> TRUE, n |-> 0 - 1]
      [] text = "64" -> [finite |-> TRUE, n |-> 64]
      [] text = "65" -> [finite |-> TRUE, n |-> 65]
      [] OTHER       -> [finite |-> FALSE, n |-> 0]

\* Number(process.env.X): an unset variable is undefined, and Number(undefined) is NaN
NumberOfEnv(v) ==
    IF IsDefined(v) THEN NumberOfText(ValueOf(v)) ELSE [finite |-> FALSE, n |-> 0]

currentDriver == IF env.DB_DRIVER = Some("sqlite") THEN "sqlite" ELSE "mongodb"

\* process.env.OTP_PEPPER || ''
Pepper == IF IsDefined(env.OTP_PEPPER) THEN ValueOf(env.OTP_PEPPER) ELSE ""

\* (variant: the hasher has no production guard)
HashNeverThrows == FALSE

\* the production guard of computeOtpHash
HashThrows ==
    /\ env.NODE_ENV = Some("production")
    /\ Pepper = ""
    /\ env.ONEHITTER_ALLOW_INSECURE_HASH # Some("true")

\* A hex digest is written as what determines it: the algorithm, the key and
\* the message (HMAC-SHA256 and SHA-256 are taken to be collision free), so it
\* is a string, as in the code, and never the message itself.
Digest(message) ==
    IF Pepper # ""
    THEN "hmac-sha256(" \o Pepper \o "," \o message \o ")"
    ELSE "sha256(" \o message \o ")"

computeOtpHash(contact, code) == Digest(contact \o "|" \o code)

computeContactId(contact) == Digest(contact)

---------------------------------------------------------------------------
(* src/src/rate-limiter.ts *)

NoBucket == <<>>
EmptyBucket == [times |-> <<>>, cooldownUntil |-> Undefined]

\* one bucket for everybody: the first one that exists
bucketShared(att, contact) ==
    IF \A c \in DOMAIN att : att[c] = NoBucket THEN EmptyBucket
    ELSE ValueOf(att[CHOOSE c \in DOMAIN att : att[c] # NoBucket])

\* bucket(contact): the stored bucket, created empty on first use
bucket(att, contact) ==
    IF att[contact] = NoBucket THEN EmptyBucket ELSE ValueOf(att[contact])

\* (variant: the filter keeps no timestamp)
KeepNothing(times, now, windowMs) == <<>>

KeepEverything(times, now, windowMs) == times

KeepInWindow(times, now, windowMs) ==
    SelectSeq(times, LAMBDA t : now - t <= windowMs)

\* prune(contact, now): the bucket with the old timestamps filtered out
prune(att, contact, now, lim) ==
    LET b == bucket(att, contact)
    IN  [b EXCEPT !.times = KeepInWindow(b.times, now, lim.windowMs)]

\* `if (b.cooldownUntil)`: undefined and 0 are falsy
CooldownSet(b) == IsDefined(b.cooldownUntil) /\ ValueOf(b.cooldownUntil) # 0

\* (variant: the threshold is reached one failure early)
inMemBeforeValidateEarly(att, contact, now, lim) ==
    LET b == prune(att, contact, now, lim)
    IN  IF CooldownSet(b) /\ ValueOf(b.cooldownUntil) > now
        THEN [allowed |-> FALSE, attempts |-> [att EXCEPT ![contact] = Some(b)]]
        ELSE LET b2 == IF CooldownSet(b) THEN EmptyBucket ELSE b
             IN  [allowed  |-> Len(b2.times) + 1 < lim.max,
                  attempts |-> [att EXCEPT ![contact] = Some(b2)]]

\* InMemoryRateLimiter.beforeValidate: the answer and the bucket it leaves
\* beforeValidate that leaves the cooldown without clearing the history
inMemBeforeValidateKeepHistory(att, contact, now, lim) ==
    LET b == prune(att, contact, now, lim)
    IN  IF CooldownSet(b) /\ ValueOf(b.cooldownUntil) > now
        THEN [allowed |-> FALSE, attempts |-> [att EXCEPT ![contact] = Some(b)]]
        ELSE [allowed  |-> Len(b.times) < lim.max,
              attempts |-> [att EXCEPT ![contact] =
                              Some([b EXCEPT !.cooldownUntil = Undefined])]]

\* beforeValidate that restarts the cooldown whenever it refuses
inMemBeforeValidateExtend(att, contact, now, lim) ==
    LET b == prune(att, contact, now, lim)
    IN  IF CooldownSet(b) /\ ValueOf(b.cooldownUntil) > now
        THEN [allowed |-> FALSE,
              attempts |-> [att EXCEPT ![contact] =
                              Some([b EXCEPT !.cooldownUntil = Some(now + lim.cooldownMs)])]]
        ELSE LET b2 == IF CooldownSet(b) THEN EmptyBucket ELSE b
             IN  [allowed  |-> Len(b2.times) < lim.max,
                  attempts |-> [att EXCEPT ![contact] = Some(b2)]]

inMemBeforeValidate(att, contact, now, lim) ==
    LET b == prune(att, contact, now, lim)
    IN  IF CooldownSet(b) /\ ValueOf(b.cooldownUntil) > now
        THEN [allowed |-> FALSE, attempts |-> [att EXCEPT ![contact] = Some(b)]]
        ELSE LET b2 == IF CooldownSet(b) THEN EmptyBucket ELSE b
             IN  [allowed  |-> Len(b2.times) < lim.max,
                  attempts |-> [att EXCEPT ![contact] = Some(b2)]]

\* (variant: onFailure records the failure but never starts a cooldown)
inMemOnFailureNoCooldown(att, contact, now, lim) ==
    LET b == prune(att, contact, now, lim)
    IN  [att EXCEPT ![contact] = Some([b EXCEPT !.times = Append(b.times, now)])]

\* InMemoryRateLimiter.onFailure
\* onFailure that sets the cooldown only once max is exceeded
inMemOnFailureLate(att, contact, now, lim) ==
    LET b  == prune(att, contact, now, lim)
        ts == Append(b.times, now)
        b2 == [times |-> ts,
               cooldownUntil |-> IF Len(ts) > lim.max
                                 THEN Some(now + lim.cooldownMs)
                                 ELSE b.cooldownUntil]
    IN  [att EXCEPT ![contact] = Some(b2)]

inMemOnFailure(att, contact, now, lim) ==
    LET b  == prune(att, contact, now, lim)
        ts == Append(b.times, now)
        b2 == [times |-> ts,
               cooldownUntil |-> IF Len(ts) >= lim.max
                                 THEN Some(now + lim.cooldownMs)
                                 ELSE b.cooldownUntil]
    IN  [att EXCEPT ![contact] = Some(b2)]

\* (variant: onSuccess forgets the failures but leaves the cooldown)
inMemOnSuccessKeepCooldown(att, contact) ==
    [att EXCEPT ![contact] = Some([bucket(att, contact) EXCEPT !.times = <<>>])]

\* InMemoryRateLimiter.onSuccess
inMemOnSuccess(att, contact) == [att EXCEPT ![contact] = NoBucket]

---------------------------------------------------------------------------
(* The rate limiter as OneHitter sees it: src/src/onehitter.ts constructor *)

\* options.rateLimiter given: the caller's limiter (any beforeValidate answer,
\* hooks that only count), or an InMemoryRateLimiter the caller built;
\* else ONEHITTER_ENABLE_INMEM_LIMITER selects the built-in one; else Noop.
LimiterKinds == {"noop", "inmem", "custom"}

\* the answers limiter.beforeValidate(contact) can give, with the limiter state left
beforeValidate(contact) ==
    CASE limiter.kind = "noop" ->
            {[allowed |-> TRUE, attempts |-> attempts]}
      [] limiter.kind = "inmem" ->
            {inMemBeforeValidate(attempts, contact, clock, limiter)}
      [] OTHER ->
            {[allowed |-> ok, attempts |-> attempts] : ok \in BOOLEAN}

onSuccess(contact) ==
    IF limiter.kind = "inmem" THEN inMemOnSuccess(attempts, contact) ELSE attempts

onFailure(contact) ==
    IF limiter.kind = "inmem"
    THEN inMemOnFailure(attempts, contact, clock, limiter)
    ELSE attempts

---------------------------------------------------------------------------
(* src/src/db/index.ts *)

getAdapter(hasClient) == IF hasClient THEN "mongodb" ELSE currentDriver

---------------------------------------------------------------------------
(* src/src/db/sqlite-functions.ts *)

\* (variant: rows WHERE contactId = ?)
MatchingRowsOfContact(rows, contact, code) ==
    {r \in rows : r.contactId = computeContactId(contact)}

\* rows WHERE contactId = ? AND otpHash = ?
MatchingRows(rows, contact, code) ==
    {r \in rows : /\ r.contactId = computeContactId(contact)
                  /\ r.otpHash = computeOtpHash(contact, code)}

\* (variant: ORDER BY id ASC)
OldestById(rows) == CHOOSE r \in rows : \A q \in rows : q.id >= r.id

\* ORDER BY id DESC LIMIT 1
NewestById(rows) == CHOOSE r \in rows : \A q \in rows : q.id <= r.id

\* SELECT id, createdAt FROM otp WHERE ... ORDER BY id DESC LIMIT 1
sqliteSelect(rows, contact, code) ==
    LET m == MatchingRows(rows, contact, code)
    IN  IF m = {} THEN Undefined
        ELSE Some([id |-> NewestById(m).id, createdAt |-> NewestById(m).createdAt])

\* (variant: the DELETE removes nothing)
sqliteDeleteNothing(rows, id) == rows

\* (variant: the DELETE removes every row of the contact of row id)
sqliteDeleteOfContact(rows, id) ==
    {r \in rows : \A d \in rows : d.id = id => r.contactId # d.contactId}

\* a DELETE of every row that has the contact and the hash of the row named
sqliteDeleteMatching(rows, id) ==
    {r \in rows : \A d \in rows :
        d.id = id => r.contactId # d.contactId \/ r.otpHash # d.otpHash}

\* DELETE FROM otp WHERE id = ?: the rows left
sqliteDelete(rows, id) == {r \in rows : r.id # id}

\* a DELETE that always reports one row changed
sqliteChangesAssumed(rows, id) == 1

\* this.changes of that DELETE
sqliteChanges(rows, id) == Cardinality({r \in rows : r.id = id})

\* (variant: only the ttlSeconds argument counts)
sqliteTtlOfArgument(ttlSeconds) == ttlSeconds

\* a ttl that takes OTP_EXPIRY only when it is positive
sqliteTtlEnvIfPositive(ttlSeconds) ==
    IF NumberOfEnv(env.OTP_EXPIRY).finite /\ NumberOfEnv(env.OTP_EXPIRY).n > 0
    THEN Some(NumberOfEnv(env.OTP_EXPIRY).n)
    ELSE ttlSeconds

\* the ttl otpValidateWithStatus uses: OTP_EXPIRY when it parses to a finite
\* number, else the ttlSeconds argument
sqliteTtl(ttlSeconds) ==
    IF NumberOfEnv(env.OTP_EXPIRY).finite
    THEN Some(NumberOfEnv(env.OTP_EXPIRY).n)
    ELSE ttlSeconds

\* (variant: a record aged exactly the ttl already counts as expired)
sqliteClassifyAtTtl(now, createdAtMs, ttlSeconds) ==
    LET ttl == sqliteTtl(ttlSeconds)
    IN  IF IsDefined(ttl) /\ ValueOf(ttl) > 0 /\ now - createdAtMs >= ValueOf(ttl) * 1000
        THEN "expired"
        ELSE "ok"

\* the status after a DELETE that changed one row
sqliteClassify(now, createdAtMs, ttlSeconds) ==
    LET ttl == sqliteTtl(ttlSeconds)
    IN  IF IsDefined(ttl) /\ ValueOf(ttl) > 0 /\ now - createdAtMs > ValueOf(ttl) * 1000
        THEN "expired"
        ELSE "ok"

\* (variant: this.changes is not looked at)
sqliteDeleteStatusUnchecked(changes, now, createdAtMs, ttlSeconds) ==
    sqliteClassify(now, createdAtMs, ttlSeconds)

\* (variant: the age is looked at before this.changes)
sqliteDeleteStatusAgeFirst(changes, now, createdAtMs, ttlSeconds) ==
    IF sqliteClassify(now, createdAtMs, ttlSeconds) = "expired" THEN "expired"
    ELSE IF changes # 1 THEN "not_found" ELSE "ok"

\* the status the DELETE callback resolves with
sqliteDeleteStatus(changes, now, createdAtMs, ttlSeconds) ==
    IF changes # 1 THEN "not_found" ELSE sqliteClassify(now, createdAtMs, ttlSeconds)

\* (variant: the expiry is checked first and an expired row is left in the table)
sqliteConsumeKeepExpired(rows, row, now, ttlSeconds) ==
    LET changes == sqliteChanges(rows, row.id)
        status  == sqliteDeleteStatus(changes, now, row.createdAt, ttlSeconds)
    IN  [rows    |-> IF status = "expired" THEN rows ELSE sqliteDelete(rows, row.id),
         changes |-> IF status = "expired" THEN 0 ELSE changes,
         status  |-> status]

\* the DELETE of the selected row and the status its callback resolves with
sqliteConsume(rows, row, now, ttlSeconds) ==
    LET changes == sqliteChanges(rows, row.id)
    IN  [rows    |-> sqliteDelete(rows, row.id),
         changes |-> changes,
         status  |-> sqliteDeleteStatus(changes, now, row.createdAt, ttlSeconds)]

\* otpCreate: createdAt is the supplied date, or Date.now()
sqliteCreatedAt(createdAt) == IF IsDefined(createdAt) THEN ValueOf(createdAt) ELSE clock

\* a row that keeps what it was given
sqliteRowPlain(id, contact, code, createdAt) ==
    [id |-> id, contactId |-> contact, otpHash |-> code,
     createdAt |-> sqliteCreatedAt(createdAt)]

sqliteRow(id, contact, code, createdAt) ==
    [id |-> id, contactId |-> computeContactId(contact),
     otpHash |-> computeOtpHash(contact, code), createdAt |-> sqliteCreatedAt(createdAt)]

\* an insert that replaced the rows of the same (contactId, otpHash)
sqliteUpsert(rows, row) ==
    {r \in rows : r.contactId # row.contactId \/ r.otpHash # row.otpHash} \cup {row}

\* an insert that also refreshes createdAt on the rows of the same contact
sqliteInsertRefresh(rows, row) ==
    {IF r.contactId = row.contactId THEN [r EXCEPT !.createdAt = row.createdAt] ELSE r :
       r \in rows} \cup {row}

\* INSERT INTO otp (contactId, otpHash, createdAt) VALUES (?, ?, ?)
sqliteInsert(rows, row) == rows \cup {row}

---------------------------------------------------------------------------
(* The durable backend: findOneAndDelete with the expiry check, and the TTL *)
(* index that removes aged documents in the background                      *)

MatchingDocs(docs, contact, code) ==
    {d \in docs : /\ d.contactId = computeContactId(contact)
                  /\ d.otpHash = computeOtpHash(contact, code)}

mongoTtl == IF NumberOfEnv(env.OTP_EXPIRY).finite
            THEN Some(NumberOfEnv(env.OTP_EXPIRY).n) ELSE Undefined

mongoClassify(now, createdAtMs) ==
    IF IsDefined(mongoTtl) /\ ValueOf(mongoTtl) > 0
       /\ now - createdAtMs > ValueOf(mongoTtl) * 1000
    THEN "expired"
    ELSE "ok"

mongoDoc(oid, contact, code, createdAt) ==
    [id |-> oid, contactId |-> computeContactId(contact),
     otpHash |-> computeOtpHash(contact, code),
     createdAt |-> IF IsDefined(createdAt) THEN ValueOf(createdAt) ELSE clock]

---------------------------------------------------------------------------
(* State *)

Backends == {"sqlite", "mongodb"}
AttemptKeys == Backends \X Attempts
Statuses == {"ok", "not_found", "expired"}

IdleCall ==
    [pc |-> "idle", contact |-> "", otp |-> "", client |-> FALSE, adapter |-> "none",
     now |-> 0, row |-> Undefined, status |-> "none", result |-> "none",
     deleted |-> 0, adapterCalls |-> 0, hooks |-> <<>>,
     lostRace |-> FALSE, sawCreate |-> FALSE, afterOk |-> FALSE, afterExpired |-> FALSE,
     allowed |-> TRUE, limited |-> "none", threw |-> "none", ttlSeconds |-> Undefined]

\* History of a contact's bucket: n failures recorded since the bucket was last
\* empty (counted up to max + 1), the first of them at `first`, the max-th at
\* `maxAt`, and whether beforeValidate has answered false since.
NoFailures == [n |-> 0, first |-> 0, maxAt |-> 0, refused |-> FALSE]

CountFailure(f, now, lim) ==
    IF f.n > lim.max THEN f
    ELSE [f EXCEPT !.n     = f.n + 1,
                   !.first = IF f.n = 0 THEN now ELSE f.first,
                   !.maxAt = IF f.n + 1 = lim.max THEN now ELSE f.maxAt]

CountAnswer(f, allowed) == IF allowed THEN f ELSE [f EXCEPT !.refused = TRUE]

ResetIfEmpty(f, att, contact) ==
    IF att[contact] \in {NoBucket, Some(EmptyBucket)} THEN NoFailures ELSE f

\* where the contact stands when a call starts: max failures recorded and the
\* cooldown of the max-th still running ("cooling") or over ("cooled", or
\* "released" when a call was refused meanwhile)
LimitedAt(contact) ==
    IF limiter.kind = "inmem" /\ failed[contact].n = limiter.max
    THEN IF clock < failed[contact].maxAt + limiter.cooldownMs THEN "cooling"
         ELSE IF failed[contact].refused THEN "released" ELSE "cooled"
    ELSE "none"

\* make() has not been called; none of its settings is in the environment
IdleMaker ==
    [env |-> [OTP_LENGTH |-> Undefined, OTP_LETTERS_UPPER |-> Undefined,
              OTP_LETTERS_LOWER |-> Undefined, OTP_DIGITS |-> Undefined,
              OTP_SPECIAL_CHARS |-> Undefined],
     pc |-> "idle", length |-> 0, options |-> {}, code |-> [length |-> 0, classes |-> {}]]

\* an authenticateUser call that has not started
IdleAuthCall ==
    [pc |-> "idle", id |-> 0, userId |-> "", otp |-> "", extra |-> Undefined,
     status |-> "none", returned |-> Undefined]

\* an OtpAuthService nobody has called
IdleAuth == [slots |-> [p \in Slots |-> IdleAuthCall], events |-> <<>>, started |-> 0]

\* a sender nobody has called, with nothing configured
IdleMail ==
    [env |-> [OTP_URL |-> Undefined, OTP_MESSAGE_FROM |-> Undefined],
     message |-> [kind |-> "none", templateFrom |-> Undefined, from |-> Undefined],
     pc |-> "idle", log |-> <<>>, sent |-> <<>>]

\* the legacy functions with an empty collection and nobody calling
IdleLegacyCall == [pc |-> "idle", otp |-> Undefined, result |-> Undefined]

IdleLegacy ==
    [docs |-> {}, lastId |-> 0, calls |-> [p \in Slots |-> IdleLegacyCall],
     inserted |-> [a \in Attempts |-> 0], trues |-> [a \in Attempts |-> 0]]

\* a collection without indexes that ensureCreatedAtTTLIndex was never called on
IdleEnsure ==
    [named |-> TRUE, indexes |-> {}, pc |-> "idle", ttlSeconds |-> 0, existing |-> Undefined,
     before |-> Undefined, log |-> <<>>, result |-> Undefined, previous |-> Undefined]

\* the environments explored
Envs ==
    [DB_DRIVER : {Undefined, Some("sqlite")},
     OTP_EXPIRY : {Undefined, Some("1")},
     OTP_PEPPER : {Some("pepper")},
     NODE_ENV : {Undefined},
     ONEHITTER_ALLOW_INSECURE_HASH : {Undefined}]

InitStorageOf(contacts) ==
    /\ attempts = [c \in contacts |-> NoBucket]
    /\ clock = T0
    /\ otp = {}
    /\ lastID = 0
    /\ coll = {}
    /\ lastOid = 0
    /\ calls = [p \in Slots |-> IdleCall]
    /\ created = [k \in AttemptKeys |-> 0]
    /\ born = [k \in AttemptKeys |-> 0]
    /\ won = [k \in AttemptKeys |-> 0]
    /\ okSeen = {}
    /\ expiredSeen = {}
    /\ failed = [c \in contacts |-> NoFailures]
    /\ asked = Undefined
    /\ cleared = [c \in contacts |-> Undefined]
    /\ createLog = {}

InitStorage == InitStorageOf(Contacts)

InitStore ==
    /\ InitStorage
    /\ maker = IdleMaker
    /\ auth = IdleAuth
    /\ mail = IdleMail
    /\ legacy = IdleLegacy
    /\ ensure = IdleEnsure

---------------------------------------------------------------------------
(* OneHitter.create: src/src/onehitter.ts, with otpCreate of the adapter *)

\* the first argument of create: the caller's MongoClient, or the OTP document
CreateArg(contact, client) ==
    IF client THEN [db |-> TRUE, contact |-> ""] ELSE [db |-> FALSE, contact |-> contact]

\* `isOtpFirst = arg1?.contact && !arg1?.db`: a non-empty contact and no db member
isOtpFirst(arg1) == arg1.contact # "" /\ ~arg1.db

\* `client = isOtpFirst ? undefined : arg1`, then `hasClient: !!client`
createHasClient(arg1) == ~isOtpFirst(arg1)

\* an entry of the create history: whether a handle was passed, the adapter
\* chosen, and what the call threw ("none" when it inserted)
Routed(handle, hasClient, threw) ==
    [handle |-> handle, adapter |-> getAdapter(hasClient), threw |-> threw]

\* what an adapter method throws before its first database statement: the
\* MongoDB adapter without a client ("adapter"), else the hasher under the
\* production guard ("hasher"), else nothing
ThrowsBeforeStorage(client) ==
    IF getAdapter(client) = "mongodb" /\ ~client THEN "adapter"
    ELSE IF HashThrows THEN "hasher"
    ELSE "none"

\* create(otp) / create(client, otp): one record inserted, or an error thrown
\* (no client for the MongoDB adapter, or the production guard of the hasher)
Create(a, createdAt, client) ==
    /\ lastID + lastOid < MaxCreates
    /\ client \in (IF hasMongo THEN BOOLEAN ELSE {FALSE})
    /\ createLog' = createLog \cup {Routed(client, createHasClient(CreateArg(a.contact, client)),
                                            ThrowsBeforeStorage(client))}
    /\ \/ /\ ThrowsBeforeStorage(client) # "none"
          /\ UNCHANGED <<otp, lastID, coll, lastOid, created, born>>
       \/ /\ ThrowsBeforeStorage(client) = "none"
          /\ getAdapter(createHasClient(CreateArg(a.contact, client))) = "sqlite"
          /\ otp' = sqliteInsert(otp, sqliteRow(lastID + 1, a.contact, a.otp, createdAt))
          /\ lastID' = lastID + 1
          /\ created' = [created EXCEPT ![<<"sqlite", a>>] = @ + 1]
          /\ born' = [born EXCEPT ![<<"sqlite", a>>] = sqliteCreatedAt(createdAt)]
          /\ UNCHANGED <<coll, lastOid>>
       \/ /\ ThrowsBeforeStorage(client) = "none"
          /\ getAdapter(createHasClient(CreateArg(a.contact, client))) = "mongodb"
          /\ client
          /\ coll' = coll \cup {mongoDoc(lastOid + 1, a.contact, a.otp, createdAt)}
          /\ lastOid' = lastOid + 1
          /\ created' = [created EXCEPT ![<<"mongodb", a>>] = @ + 1]
          /\ born' = [born EXCEPT ![<<"mongodb", a>>] =
                            mongoDoc(lastOid + 1, a.contact, a.otp, createdAt).createdAt]
          /\ UNCHANGED <<otp, lastID>>
    /\ UNCHANGED <<legacy, ensure, auth, maker, mail, env, hasMongo, limiter, attempts, clock, calls, won, okSeen, expiredSeen,
                   failed, asked, cleared>>

\* create({ contact: '', otp, createdAt }) without a handle: the document is taken
\* for the client, the MongoDB adapter is chosen and its otpCreate fails on it
CreateNameless ==
    /\ createLog' = createLog \cup {Routed(FALSE, createHasClient(CreateArg("", FALSE)), "adapter")}
    /\ UNCHANGED <<legacy, ensure, auth, maker, mail, env, hasMongo, limiter, attempts, clock, otp, lastID, coll, lastOid,
                   calls, created, born, won, okSeen, expiredSeen, failed, asked, cleared>>

---------------------------------------------------------------------------
(* OneHitter.validateStatus: src/src/onehitter.ts *)

\* A new call takes the first slot that holds no call in flight (slots only
\* name the calls; 0 when every slot is busy).
FreeSlots == {q \in Slots : calls[q].pc \in {"idle", "done"}}
FreeSlot == IF FreeSlots = {} THEN 0 ELSE CHOOSE q \in FreeSlots : \A r \in FreeSlots : q <= r

\* the attempt of a call, and the history key of a call that reached its adapter
AttemptOf(c) == [contact |-> c.contact, otp |-> c.otp]
KeyOf(c) == <<c.adapter, AttemptOf(c)>>

\* a call as it enters validateStatus
NewCall(a, client) ==
    [IdleCall EXCEPT
        !.contact = a.contact, !.otp = a.otp, !.client = client,
        !.sawCreate = created[<<getAdapter(client), a>>] > 0,
        !.afterOk = <<getAdapter(client), a>> \in okSeen,
        !.afterExpired = <<getAdapter(client), a>> \in expiredSeen,
        !.limited = LimitedAt(a.contact)]

\* (variant: the answer of beforeValidate is ignored)
IgnoreAnswer(c, allowed) == [c EXCEPT !.pc = "allowed", !.allowed = allowed]

\* (variant: every call is turned away, whatever beforeValidate answered)
BlockAlways(c, allowed) == [c EXCEPT !.pc = "done", !.result = "blocked", !.allowed = allowed]

\* `if (!allowed) return 'blocked'`
AfterBeforeValidate(c, allowed) ==
    IF allowed
    THEN [c EXCEPT !.pc = "allowed", !.allowed = TRUE]
    ELSE [c EXCEPT !.pc = "done", !.result = "blocked", !.allowed = FALSE]

\* the call starts: limiter.beforeValidate(otp.contact); blocked if it says no
Begin(p, a, client) ==
    /\ p = FreeSlot
    /\ client \in (IF hasMongo THEN BOOLEAN ELSE {FALSE})
    /\ \E r \in beforeValidate(a.contact) :
          /\ attempts' = r.attempts
          /\ failed' = [failed EXCEPT ![a.contact] =
                          ResetIfEmpty(CountAnswer(@, r.allowed), r.attempts, a.contact)]
          /\ calls' = [calls EXCEPT ![p] = AfterBeforeValidate(NewCall(a, client), r.allowed)]
    /\ UNCHANGED <<legacy, ensure, auth, maker, mail, env, hasMongo, limiter, clock, otp, lastID, coll, lastOid,
                   created, born, won, okSeen, expiredSeen, asked, cleared, createLog>>

\* what adapter.validateWithStatus does before its first database statement:
\* the MongoDB adapter throws without a client, the hasher throws under the
\* production guard, otherwise `now` is taken and the statement is queued
AdapterEntry(c) ==
    LET adapter == getAdapter(c.client)
    IN  IF ThrowsBeforeStorage(c.client) # "none"
        THEN [c EXCEPT !.pc = "done", !.result = "error", !.adapter = adapter,
                       !.adapterCalls = @ + 1, !.threw = ThrowsBeforeStorage(c.client)]
        ELSE [c EXCEPT !.pc = IF adapter = "sqlite" THEN "select" ELSE "findOneAndDelete",
                       !.adapter = adapter, !.now = clock, !.adapterCalls = @ + 1]

AdapterCall(p) ==
    /\ calls[p].pc = "allowed"
    /\ calls' = [calls EXCEPT ![p] = AdapterEntry(calls[p])]
    /\ UNCHANGED <<legacy, ensure, auth, maker, mail, env, hasMongo, limiter, attempts, clock, otp, lastID, coll, lastOid,
                   created, born, won, okSeen, expiredSeen, failed, asked, cleared, createLog>>

\* the SELECT of otpValidateWithStatus runs
AfterSelect(c, row) ==
    IF IsDefined(row)
    THEN [c EXCEPT !.pc = "delete", !.row = row]
    ELSE [c EXCEPT !.pc = "resolved", !.status = "not_found"]

Select(p) ==
    /\ calls[p].pc = "select"
    /\ calls' = [calls EXCEPT ![p] =
                    AfterSelect(calls[p], sqliteSelect(otp, calls[p].contact, calls[p].otp))]
    /\ UNCHANGED <<legacy, ensure, auth, maker, mail, env, hasMongo, limiter, attempts, clock, otp, lastID, coll, lastOid,
                   created, born, won, okSeen, expiredSeen, failed, asked, cleared, createLog>>

\* a ttlSeconds argument as the ttl it can be: a NaN or infinite ttl never makes
\* `ttl > 0 && ageMs > ttl * 1000` true, as no ttl at all
FiniteOf(ttlSeconds) ==
    IF IsDefined(ttlSeconds) /\ ValueOf(ttlSeconds).finite
    THEN Some(ValueOf(ttlSeconds).n) ELSE Undefined

\* the DELETE of otpValidateWithStatus runs, and its callback resolves the status
\* (SqliteAdapter passes no `now` and no ttlSeconds)
Delete(p) ==
    LET c == calls[p]
        r == sqliteConsume(otp, ValueOf(c.row), c.now, FiniteOf(c.ttlSeconds))
    IN  /\ c.pc = "delete"
        /\ otp' = r.rows
        /\ calls' = [calls EXCEPT ![p] =
                        [c EXCEPT !.pc = "resolved", !.status = r.status,
                                  !.deleted = @ + r.changes,
                                  !.lostRace = (r.changes = 0)]]
        /\ won' = IF r.status \in {"ok", "expired"}
                  THEN [won EXCEPT ![KeyOf(c)] = @ + 1]
                  ELSE won
        /\ UNCHANGED <<legacy, ensure, auth, maker, mail, env, hasMongo, limiter, attempts, clock, lastID, coll, lastOid,
                       created, born, okSeen, expiredSeen, failed, asked, cleared, createLog>>

\* the durable backend's single atomic find-and-delete, then the expiry check
FindOneAndDelete(p) ==
    LET c == calls[p]
        m == MatchingDocs(coll, c.contact, c.otp)
    IN  /\ c.pc = "findOneAndDelete"
        /\ \/ /\ m = {}
              /\ calls' = [calls EXCEPT ![p] =
                              [c EXCEPT !.pc = "resolved", !.status = "not_found"]]
              /\ UNCHANGED <<coll, won>>
           \/ \E d \in m :
              /\ coll' = coll \ {d}
              /\ calls' = [calls EXCEPT ![p] =
                              [c EXCEPT !.pc = "resolved",
                                        !.row = Some([id |-> d.id, createdAt |-> d.createdAt]),
                                        !.status = mongoClassify(c.now, d.createdAt),
                                        !.deleted = @ + 1]]
              /\ won' = [won EXCEPT ![KeyOf(c)] = @ + 1]
        /\ UNCHANGED <<legacy, ensure, auth, maker, mail, env, hasMongo, limiter, attempts, clock, otp, lastID, lastOid,
                       created, born, okSeen, expiredSeen, failed, asked, cleared, createLog>>

\* the TTL index of the durable backend removes a document past its expiry
Sweep ==
    /\ IsDefined(mongoTtl) /\ ValueOf(mongoTtl) > 0
    /\ \E d \in coll :
          /\ clock - d.createdAt > ValueOf(mongoTtl) * 1000
          /\ coll' = coll \ {d}
    /\ UNCHANGED <<legacy, ensure, auth, maker, mail, env, hasMongo, limiter, attempts, clock, otp, lastID, lastOid,
                   calls, created, born, won, okSeen, expiredSeen, failed, asked, cleared, createLog>>

\* (variant: an expired record counts as a success)
hookForConsumed(status) == IF status \in {"ok", "expired"} THEN "onSuccess" ELSE "onFailure"

\* the hook validateStatus calls once the adapter has resolved
hookFor(status) == IF status = "ok" THEN "onSuccess" ELSE "onFailure"

\* the adapter resolved: onSuccess or onFailure, then the status is returned
Hook(p) ==
    LET c == calls[p]
        k == KeyOf(c)
    IN  /\ c.pc = "resolved"
        /\ attempts' = IF hookFor(c.status) = "onSuccess"
                       THEN onSuccess(c.contact) ELSE onFailure(c.contact)
        /\ calls' = [calls EXCEPT ![p] =
                        [c EXCEPT !.pc = "done", !.result = c.status,
                                  !.hooks = Append(@, hookFor(c.status)),
                                  !.now = 0, !.row = Undefined]]
        /\ failed' = [failed EXCEPT ![c.contact] =
                        ResetIfEmpty(IF hookFor(c.status) = "onFailure" /\ limiter.kind = "inmem"
                                     THEN CountFailure(@, clock, limiter) ELSE @,
                                     attempts', c.contact)]
        /\ okSeen' = IF c.status = "ok" THEN okSeen \cup {k} ELSE okSeen
        /\ expiredSeen' = IF c.status = "expired" THEN expiredSeen \cup {k} ELSE expiredSeen
        /\ UNCHANGED <<legacy, ensure, auth, maker, mail, env, hasMongo, limiter, clock, otp, lastID, coll, lastOid,
                       created, born, won, asked, cleared, createLog>>

\* (variant: a failed statement is taken for a missing record)
RejectAsNotFound(c, by) == [c EXCEPT !.pc = "resolved", !.status = "not_found", !.threw = by]

\* the call rejects: validateStatus has no try/catch, so what `by` threw reaches
\* the caller and nothing after the failing await runs
Rejects(c, by) ==
    [c EXCEPT !.pc = "done", !.result = "error", !.threw = by,
              !.now = 0, !.row = Undefined]

\* the SELECT calls back with err: `if (err) return reject(err)`
SelectFails(p) ==
    /\ calls[p].pc = "select"
    /\ calls' = [calls EXCEPT ![p] = Rejects(calls[p], "storage")]
    /\ UNCHANGED <<legacy, ensure, auth, maker, mail, env, hasMongo, limiter, attempts, clock, otp, lastID, coll, lastOid,
                   created, born, won, okSeen, expiredSeen, failed, asked, cleared, createLog>>

\* the DELETE calls back with delErr, nothing deleted: `if (delErr) return reject(delErr)`
DeleteFails(p) ==
    /\ calls[p].pc = "delete"
    /\ calls' = [calls EXCEPT ![p] = Rejects(calls[p], "storage")]
    /\ UNCHANGED <<legacy, ensure, auth, maker, mail, env, hasMongo, limiter, attempts, clock, otp, lastID, coll, lastOid,
                   created, born, won, okSeen, expiredSeen, failed, asked, cleared, createLog>>

\* limiter.beforeValidate of the caller's limiter throws
BeginThrows(p, a, client) ==
    /\ p = FreeSlot
    /\ limiter.kind = "custom"
    /\ client \in (IF hasMongo THEN BOOLEAN ELSE {FALSE})
    /\ calls' = [calls EXCEPT ![p] = Rejects(NewCall(a, client), "limiter")]
    /\ UNCHANGED <<legacy, ensure, auth, maker, mail, env, hasMongo, limiter, attempts, clock, otp, lastID, coll, lastOid,
                   created, born, won, okSeen, expiredSeen, failed, asked, cleared, createLog>>

\* limiter.onSuccess / limiter.onFailure of the caller's limiter throws
HookThrows(p) ==
    /\ calls[p].pc = "resolved"
    /\ limiter.kind = "custom"
    /\ calls' = [calls EXCEPT ![p] =
                    [Rejects(calls[p], "limiter") EXCEPT
                        !.hooks = Append(@, hookFor(calls[p].status))]]
    /\ UNCHANGED <<legacy, ensure, auth, maker, mail, env, hasMongo, limiter, attempts, clock, otp, lastID, coll, lastOid,
                   created, born, won, okSeen, expiredSeen, failed, asked, cleared, createLog>>

\* (variant: every status of the adapter counts as a success)
validateAnyStatus(result) == result \in {"ok", "expired", "not_found"}

\* (variant: only a refused attempt counts as false)
validateUnlessBlocked(result) == result # "blocked"

\* OneHitter.validate: true iff validateStatus returned ok
validate(result) == result = "ok"

\* time passes
Tick ==
    /\ clock + TickMs <= Horizon
    /\ clock' = clock + TickMs
    /\ UNCHANGED <<legacy, ensure, auth, maker, mail, env, hasMongo, limiter, attempts, otp, lastID, coll, lastOid,
                   calls, created, born, won, okSeen, expiredSeen, failed, asked, cleared, createLog>>

\* a short time passes: half the limiter's cooldown
PauseMs == limiter.cooldownMs \div 2

Pause ==
    /\ PauseMs > 0
    /\ ((clock - T0) % limiter.windowMs) + PauseMs <= MaxPauses * PauseMs
    /\ clock' = clock + PauseMs
    /\ UNCHANGED <<legacy, ensure, auth, maker, mail, env, hasMongo, limiter, attempts, otp, lastID, coll, lastOid,
                   calls, created, born, won, okSeen, expiredSeen, failed, asked, cleared, createLog>>

\* the dates a caller supplies to create: none, or the earliest instant
SuppliedDates == {Undefined, Some(T0)}

---------------------------------------------------------------------------
(* The embedded deployment: DB_DRIVER=sqlite, no MongoClient, default limiter *)

NoLimiterOptions == [kind |-> "noop", max |-> 0, windowMs |-> 0, cooldownMs |-> 0]

Init ==
    /\ env \in {e \in Envs : e.DB_DRIVER = Some("sqlite")}
    /\ hasMongo = FALSE
    /\ limiter = NoLimiterOptions
    /\ InitStore

Next ==
    \/ \E a \in Attempts, d \in SuppliedDates : Create(a, d, FALSE)
    \/ \E p \in Slots, a \in Attempts : Begin(p, a, FALSE)
    \/ \E p \in Slots : AdapterCall(p)
    \/ \E p \in Slots : Select(p)
    \/ \E p \in Slots : Delete(p)
    \/ \E p \in Slots : Hook(p)
    \/ Tick

Spec == Init /\ [][Next]_vars

---------------------------------------------------------------------------
(* The durable deployment: the application passes its MongoClient (or forgets *)
(* to), DB_DRIVER is not set, default limiter, TTL index on createdAt         *)

InitDurable ==
    /\ env \in {e \in Envs : e.DB_DRIVER = Undefined}
    /\ hasMongo = TRUE
    /\ limiter = NoLimiterOptions
    /\ InitStore

NextDurable ==
    \/ \E a \in Attempts, d \in SuppliedDates : Create(a, d, TRUE)
    \/ \E p \in Slots, a \in Attempts, client \in BOOLEAN : Begin(p, a, client)
    \/ \E p \in Slots : AdapterCall(p)
    \/ \E p \in Slots : FindOneAndDelete(p)
    \/ \E p \in Slots : Hook(p)
    \/ Sweep
    \/ Tick

SpecDurable == InitDurable /\ [][NextDurable]_vars

---------------------------------------------------------------------------
(* The embedded deployment with options.rateLimiter set to a limiter of the   *)
(* caller, whose beforeValidate may answer anything; OTP_EXPIRY=1             *)

CustomLimiter == [kind |-> "custom", max |-> 0, windowMs |-> 0, cooldownMs |-> 0]

InitLimited ==
    /\ env \in {e \in Envs : e.DB_DRIVER = Some("sqlite") /\ e.OTP_EXPIRY = Some("1")}
    /\ hasMongo = FALSE
    /\ limiter = CustomLimiter
    /\ InitStore

NextLimited ==
    \/ \E a \in Attempts, d \in SuppliedDates : Create(a, d, FALSE)
    \/ \E p \in Slots, a \in Attempts : Begin(p, a, FALSE)
    \/ \E p \in Slots : AdapterCall(p)
    \/ \E p \in Slots : Select(p)
    \/ \E p \in Slots : Delete(p)
    \/ \E p \in Slots : Hook(p)
    \/ Tick

SpecLimited == InitLimited /\ [][NextLimited]_vars

---------------------------------------------------------------------------
(* The embedded deployment with options.rateLimiter set to the               *)
(* InMemoryRateLimiter of tests/inmem-limiter.js; no OTP_EXPIRY               *)

TestLimiter == [kind |-> "inmem", max |-> 2, windowMs |-> 60000, cooldownMs |-> 50]

InitInMem ==
    /\ env \in {e \in Envs : e.DB_DRIVER = Some("sqlite") /\ e.OTP_EXPIRY = Undefined}
    /\ hasMongo = FALSE
    /\ limiter = TestLimiter
    /\ InitStore

NextInMem ==
    \/ \E a \in Attempts : Create(a, Undefined, FALSE)
    \/ \E p \in Slots, a \in Attempts : Begin(p, a, FALSE)
    \/ \E p \in Slots : AdapterCall(p)
    \/ \E p \in Slots : Select(p)
    \/ \E p \in Slots : Delete(p)
    \/ \E p \in Slots : Hook(p)
    \/ Pause

SpecInMem == InitInMem /\ [][NextInMem]_vars

---------------------------------------------------------------------------
(* An InMemoryRateLimiter used on its own: built without options, or with the *)
(* options of tests/inmem-limiter.js                                          *)

DefaultLimiter == [kind |-> "inmem", max |-> 5, windowMs |-> 300000, cooldownMs |-> 60000]

\* the bucket of the contact is in a running cooldown
InCooldown(att, contact, now) ==
    /\ att[contact] # NoBucket
    /\ CooldownSet(bucket(att, contact))
    /\ ValueOf(bucket(att, contact).cooldownUntil) > now

\* History since the last onSuccess(contact): the failures recorded since (counted
\* up to max + 1), and whether that onSuccess found the contact in a cooldown.
ClearedNow(att, contact, now) == Some([n |-> 0, wasCooling |-> InCooldown(att, contact, now)])

FailedSinceCleared(h, lim) ==
    IF IsDefined(h) /\ ValueOf(h).n <= lim.max
    THEN Some([ValueOf(h) EXCEPT !.n = @ + 1])
    ELSE h

\* rl.beforeValidate(contact): the answer is kept with the history it was given on
LimiterBefore(contact) ==
    LET r == inMemBeforeValidate(attempts, contact, clock, limiter)
    IN  /\ attempts' = r.attempts
        /\ asked' = Some([contact |-> contact, allowed |-> r.allowed, now |-> clock,
                          failures |-> failed[contact],
                          sinceSuccess |-> cleared[contact]])
        /\ failed' = [failed EXCEPT ![contact] = ResetIfEmpty(@, r.attempts, contact)]
        /\ UNCHANGED <<legacy, ensure, auth, maker, mail, env, hasMongo, limiter, clock, otp, lastID, coll, lastOid,
                       calls, created, born, won, okSeen, expiredSeen, cleared, createLog>>

\* rl.onFailure(contact)
LimiterFailure(contact) ==
    /\ Len(bucket(attempts, contact).times) < MaxFailures
    /\ attempts' = inMemOnFailure(attempts, contact, clock, limiter)
    /\ failed' = [failed EXCEPT ![contact] =
                    ResetIfEmpty(CountFailure(@, clock, limiter), attempts', contact)]
    /\ asked' = Undefined
    /\ cleared' = [cleared EXCEPT ![contact] = FailedSinceCleared(@, limiter)]
    /\ UNCHANGED <<legacy, ensure, auth, maker, mail, env, hasMongo, limiter, clock, otp, lastID, coll, lastOid,
                   calls, created, born, won, okSeen, expiredSeen, createLog>>

\* rl.onSuccess(contact)
LimiterSuccess(contact) ==
    /\ attempts' = inMemOnSuccess(attempts, contact)
    /\ failed' = [failed EXCEPT ![contact] = ResetIfEmpty(@, attempts', contact)]
    /\ asked' = Undefined
    /\ cleared' = [cleared EXCEPT ![contact] = ClearedNow(attempts, contact, clock)]
    /\ UNCHANGED <<legacy, ensure, auth, maker, mail, env, hasMongo, limiter, clock, otp, lastID, coll, lastOid,
                   calls, created, born, won, okSeen, expiredSeen, createLog>>

\* a long time passes, once: the limiter's window
Lapse ==
    /\ clock - T0 < limiter.windowMs
    /\ clock' = clock + limiter.windowMs
    /\ asked' = Undefined
    /\ UNCHANGED <<legacy, ensure, auth, maker, mail, env, hasMongo, limiter, attempts, otp, lastID, coll, lastOid,
                   calls, created, born, won, okSeen, expiredSeen, failed, cleared, createLog>>

InitLimiter ==
    /\ env \in {e \in Envs : e.DB_DRIVER = Undefined /\ e.OTP_EXPIRY = Undefined}
    /\ hasMongo = FALSE
    /\ limiter \in {DefaultLimiter, TestLimiter}
    /\ InitStore

NextLimiter ==
    \/ \E contact \in Contacts : LimiterBefore(contact)
    \/ \E contact \in Contacts : LimiterFailure(contact)
    \/ \E contact \in Contacts : LimiterSuccess(contact)
    \/ Pause
    \/ Lapse

SpecLimiter == InitLimiter /\ [][NextLimiter]_vars

---------------------------------------------------------------------------
(* The embedded deployment run with NODE_ENV=production: with or without a    *)
(* pepper (unset, empty or set), with or without the insecure-hash override   *)

ProductionEnvs ==
    [DB_DRIVER : {Some("sqlite")},
     OTP_EXPIRY : {Undefined},
     OTP_PEPPER : {Undefined, Some(""), Some("pepper")},
     NODE_ENV : {Some("production")},
     ONEHITTER_ALLOW_INSECURE_HASH : {Undefined, Some("true")}]

InitProduction ==
    /\ env \in ProductionEnvs
    /\ hasMongo = FALSE
    /\ limiter = NoLimiterOptions
    /\ InitStore

NextProduction ==
    \/ \E a \in Attempts : Create(a, Undefined, FALSE)
    \/ \E p \in Slots, a \in Attempts : Begin(p, a, FALSE)
    \/ \E p \in Slots : AdapterCall(p)
    \/ \E p \in Slots : Select(p)
    \/ \E p \in Slots : Delete(p)
    \/ \E p \in Slots : Hook(p)

SpecProduction == InitProduction /\ [][NextProduction]_vars

---------------------------------------------------------------------------
(* Deployments in which things fail: no MongoClient is ever passed, DB_DRIVER *)
(* is sqlite or unset, SQLite statements may fail, the caller's limiter may   *)
(* throw                                                                      *)

InitFaulty ==
    /\ env \in {e \in Envs : e.OTP_EXPIRY = Undefined}
    /\ hasMongo = FALSE
    /\ limiter = CustomLimiter
    /\ InitStore

NextFaulty ==
    \/ \E a \in Attempts : Create(a, Undefined, FALSE)
    \/ \E p \in Slots, a \in Attempts : Begin(p, a, FALSE)
    \/ \E p \in Slots, a \in Attempts : BeginThrows(p, a, FALSE)
    \/ \E p \in Slots : AdapterCall(p)
    \/ \E p \in Slots : Select(p)
    \/ \E p \in Slots : SelectFails(p)
    \/ \E p \in Slots : Delete(p)
    \/ \E p \in Slots : DeleteFails(p)
    \/ \E p \in Slots : Hook(p)
    \/ \E p \in Slots : HookThrows(p)

SpecFaulty == InitFaulty /\ [][NextFaulty]_vars

---------------------------------------------------------------------------
(* Deployments that mix the two ways of calling: the application owns a       *)
(* MongoClient and passes it or not; DB_DRIVER is unset, sqlite or another    *)
(* value                                                                      *)

RoutingEnvs ==
    [DB_DRIVER : {Undefined, Some("sqlite"), Some("postgres")},
     OTP_EXPIRY : {Undefined},
     OTP_PEPPER : {Some("pepper")},
     NODE_ENV : {Undefined},
     ONEHITTER_ALLOW_INSECURE_HASH : {Undefined}]

InitRouting ==
    /\ env \in RoutingEnvs
    /\ hasMongo = TRUE
    /\ limiter = NoLimiterOptions
    /\ InitStore

NextRouting ==
    \/ \E a \in Attempts, client \in BOOLEAN : Create(a, Undefined, client)
    \/ CreateNameless
    \/ \E p \in Slots, a \in Attempts, client \in BOOLEAN : Begin(p, a, client)
    \/ \E p \in Slots : AdapterCall(p)
    \/ \E p \in Slots : Select(p)
    \/ \E p \in Slots : Delete(p)
    \/ \E p \in Slots : FindOneAndDelete(p)
    \/ \E p \in Slots : Hook(p)

SpecRouting == InitRouting /\ [][NextRouting]_vars

---------------------------------------------------------------------------
(* Properties of the embedded backend *)

\* the key a call's attempt is counted under, known from its arguments
KeyAtBegin(c) == <<getAdapter(c.client), AttemptOf(c)>>

InFlightOrDone(c) == c.pc # "idle"

Winners == {p \in Slots : calls[p].result \in {"ok", "expired"}}

\* every slot holds a returned call for attempt k[2] on backend k[1] that began
\* after the record was created and before any call had returned ok or expired
RaceFor(k) ==
    \A p \in Slots :
        /\ calls[p].pc = "done"
        /\ calls[p].adapter = k[1]
        /\ AttemptOf(calls[p]) = k[2]
        /\ calls[p].sawCreate
        /\ ~calls[p].afterOk
        /\ ~calls[p].afterExpired

RECURSIVE SumDeleted(_)
SumDeleted(S) ==
    IF S = {} THEN 0
    ELSE LET p == CHOOSE q \in S : TRUE IN calls[p].deleted + SumDeleted(S \ {p})

\* C1: embedded backend, one stored record, NCalls concurrent validateStatus
\* calls with its (contact, code), SELECTs and DELETEs interleaved in any order:
\* exactly one call returns ok or expired, all the others return not_found, and
\* the record is deleted exactly once.
C1_OneWinner ==
    \A k \in {"sqlite"} \X Attempts :
        (RaceFor(k) /\ created[k] = 1) =>
            /\ Cardinality(Winners) = 1
            /\ \A p \in Slots \ Winners : calls[p].result = "not_found"
            /\ SumDeleted(Slots) = 1
            /\ won[k] = 1
            /\ MatchingRows(otp, k[2].contact, k[2].otp) = {}

\* a race in which one call's DELETE found the row already gone
C1_Witness ==
    \E k \in {"sqlite"} \X Attempts :
        /\ RaceFor(k) /\ created[k] = 1
        /\ \E p \in Slots : calls[p].lostRace /\ calls[p].result = "not_found"

\* C3: single use. For a (contact, code) created exactly once, a call that
\* starts after some call returned ok for it returns not_found: it never gets
\* ok again, never throws and never deletes anything.
C3_SingleUse ==
    \A p \in Slots :
        LET c == calls[p]
        IN  (InFlightOrDone(c) /\ c.afterOk /\ created[KeyAtBegin(c)] = 1) =>
                /\ c.deleted = 0
                /\ c.status \in {"none", "not_found"}
                /\ c.pc = "done" => c.result = "not_found"

C3_Witness ==
    \E p \in Slots :
        /\ calls[p].pc = "done" /\ calls[p].afterOk
        /\ created[KeyAtBegin(calls[p])] = 1
        /\ calls[p].result = "not_found"

\* the configured expiry in milliseconds, when it is a positive number
TtlPositive == NumberOfEnv(env.OTP_EXPIRY).finite /\ NumberOfEnv(env.OTP_EXPIRY).n > 0
TtlMs == NumberOfEnv(env.OTP_EXPIRY).n * 1000

\* the age, at validation time, of the record a call consumed
AgeOf(c) == c.now - ValueOf(c.row).createdAt

Consumed(c) == c.pc = "resolved" /\ c.deleted = 1

\* C4: with a positive ttl, a call that consumed a matching record created at T
\* gets expired when now - T is greater than the ttl and ok when it is not;
\* a record aged exactly the ttl is still ok.
C4_ExpiryClassification ==
    \A p \in Slots :
        LET c == calls[p]
        IN  (c.adapter = "sqlite" /\ Consumed(c) /\ TtlPositive) =>
                /\ AgeOf(c) > TtlMs => c.status = "expired"
                /\ AgeOf(c) < TtlMs => c.status = "ok"
                /\ AgeOf(c) = TtlMs => c.status = "ok"

\* a record validated at exactly T + ttl
C4_Witness ==
    \E p \in Slots :
        /\ calls[p].adapter = "sqlite" /\ Consumed(calls[p]) /\ TtlPositive
        /\ AgeOf(calls[p]) = TtlMs
        /\ calls[p].status = "ok"

\* C5 as stated: a call that starts after an expired result for the same
\* attempt returns not_found.
C5_NextIsNotFound ==
    \A p \in Slots :
        LET c == calls[p]
        IN  (c.pc = "done" /\ c.adapter = "sqlite" /\ c.afterExpired) =>
                c.result = "not_found"

\* C5, amended: an expired answer has deleted the record it was given for, and
\* when the (contact, code) was created once the next call with the same
\* attempt returns not_found.
C5_ExpiredConsumes ==
    \A p \in Slots :
        LET c == calls[p]
        IN  /\ (c.adapter = "sqlite" /\ c.pc = "resolved" /\ c.status = "expired") =>
                /\ c.deleted = 1
                /\ \A r \in otp : r.id # ValueOf(c.row).id
            /\ (c.pc = "done" /\ c.adapter = "sqlite" /\ c.afterExpired
                    /\ created[KeyAtBegin(c)] = 1) =>
                c.result = "not_found"

C5_Witness ==
    \E p \in Slots :
        /\ calls[p].pc = "done" /\ calls[p].adapter = "sqlite"
        /\ calls[p].afterExpired
        /\ created[KeyAtBegin(calls[p])] = 1
        /\ calls[p].result = "not_found"

---------------------------------------------------------------------------
(* Properties of the durable backend *)

Trues == {p \in Slots : validate(calls[p].result)}

\* a race for one record in which every call was given the client
ClientRaceFor(k) == RaceFor(k) /\ created[k] = 1 /\ \A p \in Slots : calls[p].client

\* C2 as stated: NCalls concurrent validate(client, {contact, otp}) calls for
\* one stored record: exactly one resolves true, the others false.
C2_ExactlyOneTrue ==
    \A k \in {"mongodb"} \X Attempts :
        ClientRaceFor(k) => Cardinality(Trues) = 1

\* C2, amended: at most one of the calls consumes the record and only that
\* call can resolve true; exactly one resolves true when no expiry is enforced
\* or the record is still not older than the ttl when the calls have returned.
C2_OneTrueWithinTtl ==
    \A k \in {"mongodb"} \X Attempts :
        ClientRaceFor(k) =>
            /\ Cardinality(Winners) <= 1
            /\ Trues \subseteq Winners
            /\ \A p \in Slots \ Winners : calls[p].result = "not_found"
            /\ SumDeleted(Slots) = Cardinality(Winners)
            /\ (~TtlPositive \/ clock - born[k] <= TtlMs) => Cardinality(Trues) = 1

\* the race on a record that is still fresh: one true, the rest false
C2_Witness ==
    \E k \in {"mongodb"} \X Attempts :
        /\ ClientRaceFor(k)
        /\ TtlPositive /\ clock - born[k] <= TtlMs
        /\ Cardinality(Trues) = 1
        /\ \E p \in Slots : calls[p].result = "not_found"

---------------------------------------------------------------------------
(* Properties of validateStatus under a limiter that can refuse *)

\* the adapter has answered call c, the attempt of c was created once and before
\* c started, and no other call has consumed that record
Unrivalled(c) ==
    /\ c.pc = "resolved" /\ c.sawCreate
    /\ created[KeyOf(c)] = 1 /\ won[KeyOf(c)] = c.deleted

\* the status owed to such a call: ok, or expired for a record older than the TTL
StatusOwed(c) ==
    IF TtlPositive /\ c.now - born[KeyOf(c)] > TtlMs THEN "expired" ELSE "ok"

\* the stored rows that a call's attempt names, by the hashes of its arguments
RowsNamedBy(c) ==
    {r \in otp : /\ r.contactId = computeContactId(c.contact)
                  /\ r.otpHash = computeOtpHash(c.contact, c.otp)}

\* call q has returned `result` on the contact of call p
Returned(q, result, p) ==
    /\ calls[q].pc = "done" /\ calls[q].result = result
    /\ calls[q].contact = calls[p].contact

C6_Counts ==
    /\ \A p \in Slots :
          calls[p].pc = "done" =>
             /\ calls[p].result \in {"ok", "expired"} => calls[p].deleted = 1
             /\ calls[p].result \in {"not_found", "blocked"} => calls[p].deleted = 0
    /\ \A p, q \in Slots :
          /\ Returned(q, "not_found", p) /\ calls[q].otp # calls[p].otp
          /\ Unrivalled(calls[p])
          => calls[p].status = StatusOwed(calls[p])

C6_Frame ==
    /\ otp \ otp' # {} =>
          \E p \in Slots :
             /\ calls[p].pc = "delete" /\ calls'[p].pc = "resolved"
             /\ calls'[p].status \in {"ok", "expired"}
             /\ calls'[p].deleted = calls[p].deleted + 1
             /\ Cardinality(otp \ otp') = 1
             /\ otp \ otp' \subseteq RowsNamedBy(calls[p])
    /\ \A p \in Slots :
          (calls[p].pc \notin {"idle", "done"} /\ calls'[p].deleted # calls[p].deleted)
             => otp \ otp' # {}

\* C6: a validateStatus call that returns ok or expired has deleted exactly one
\* stored record, one that returns not_found or blocked has deleted none; a record
\* leaves the table only in the DELETE of a call whose attempt names it; and after
\* a not_found for another code of the contact, the call with the stored code
\* that no other call rivals gets ok (expired past the TTL).
C6_DeletesPerStatus == [](C6_Counts) /\ [][C6_Frame]_vars

C6_Witness ==
    \E p, q \in Slots :
        /\ Returned(q, "not_found", p) /\ calls[q].otp # calls[p].otp
        /\ calls[q].deleted = 0
        /\ calls[p].pc = "done" /\ calls[p].result = "ok" /\ calls[p].deleted = 1
        /\ created[KeyOf(calls[p])] = 1 /\ calls[p].sawCreate
        /\ otp = {}

C7_Refused ==
    /\ \A p \in Slots :
          /\ (calls[p].pc # "idle" /\ ~calls[p].allowed) =>
                /\ calls[p].pc = "done" /\ calls[p].result = "blocked"
                /\ calls[p].adapterCalls = 0 /\ calls[p].hooks = <<>>
                /\ calls[p].deleted = 0
          /\ calls[p].result = "blocked" => ~calls[p].allowed
    /\ \A p, q \in Slots :
          /\ Returned(q, "blocked", p) /\ calls[q].otp = calls[p].otp
          /\ Unrivalled(calls[p])
          => calls[p].status = StatusOwed(calls[p])

C7_Frame ==
    \A p \in Slots :
        (calls'[p] # calls[p] /\ calls'[p].result = "blocked")
           => /\ otp' = otp /\ coll' = coll /\ lastID' = lastID /\ lastOid' = lastOid
              /\ won' = won /\ failed' = failed

\* C7: a call whose beforeValidate answered false returns blocked with no adapter
\* call, no onSuccess/onFailure and nothing deleted; the step that blocks it leaves
\* both stores as they were; and a call with the same attempt that is allowed and
\* unrivalled gets ok (expired past the TTL).
C7_BlockedTouchesNothing == [](C7_Refused) /\ [][C7_Frame]_vars

C7_Witness ==
    \E p, q \in Slots :
        /\ Returned(q, "blocked", p) /\ calls[q].otp = calls[p].otp
        /\ calls[q].sawCreate /\ calls[q].adapterCalls = 0
        /\ calls[p].pc = "done" /\ calls[p].result = "ok"
        /\ created[KeyOf(calls[p])] = 1

\* C8: a call that beforeValidate allowed has invoked no hook while its adapter
\* call is pending, and once it has returned the adapter's status it has invoked
\* exactly one hook, once, after exactly one adapter call: onSuccess for ok,
\* onFailure for not_found and for expired.
C8_HookProtocol ==
    \A p \in Slots :
        /\ calls[p].pc \in {"allowed", "select", "delete", "findOneAndDelete", "resolved"}
              => calls[p].hooks = <<>>
        /\ (calls[p].pc = "done" /\ calls[p].allowed /\ calls[p].result \in Statuses) =>
              /\ calls[p].adapterCalls = 1
              /\ calls[p].result = "ok" => calls[p].hooks = <<"onSuccess">>
              /\ calls[p].result \in {"not_found", "expired"} => calls[p].hooks = <<"onFailure">>

C8_Witness ==
    \E p, q \in Slots :
        /\ calls[p].pc = "done" /\ calls[p].result = "expired"
        /\ calls[p].hooks = <<"onFailure">>
        /\ calls[q].pc = "done" /\ calls[q].result = "ok"
        /\ calls[q].hooks = <<"onSuccess">>

---------------------------------------------------------------------------
(* Properties of validateStatus under the in-memory limiter of the test:     *)
(* max = 2, windowMs = 60000, cooldownMs = 50                                 *)

C9_Limited ==
    \A p \in Slots :
        /\ calls[p].limited = "cooling" =>
              /\ calls[p].pc = "done" /\ calls[p].result = "blocked"
              /\ calls[p].adapterCalls = 0 /\ calls[p].deleted = 0
        /\ calls[p].limited \in {"cooled", "released"} =>
              /\ calls[p].allowed /\ calls[p].result # "blocked"
              /\ Unrivalled(calls[p]) => calls[p].status = "ok"

C9_Frame ==
    \A p \in Slots :
        (calls'[p] # calls[p] /\ calls'[p].limited = "cooling") => otp' = otp

\* C9: with max = 2 and cooldownMs = 50, a call that starts once two failed
\* validations of the contact are recorded and less than 50 ms after the second
\* is blocked without an adapter call and without consuming a record; a call that
\* starts 50 ms or more after the second is allowed, and with the stored code,
\* unrivalled, it gets ok.
C9_BlockedThenOk == [](C9_Limited) /\ [][C9_Frame]_vars

C9_Witness ==
    \E p \in Slots :
        /\ calls[p].limited = "released"
        /\ calls[p].pc = "done" /\ calls[p].result = "ok" /\ calls[p].sawCreate
        /\ created[KeyOf(calls[p])] = 1 /\ won[KeyOf(calls[p])] = 1

---------------------------------------------------------------------------
(* Properties of the InMemoryRateLimiter on its own *)

\* the k failures an answer was given on all lie inside the window
InsideWindow(a) ==
    a.failures.n = 0 \/ a.now - a.failures.first <= limiter.windowMs

\* the cooldown set by the max-th of them has not elapsed
Cooling(a) ==
    a.failures.n >= limiter.max /\ a.now < a.failures.maxAt + limiter.cooldownMs

\* C10: starting from an empty bucket, after k onFailure calls for a contact that
\* all lie inside the window and no onSuccess, beforeValidate answers true when
\* k < max, and false when k >= max and the cooldown set by the max-th failure has
\* not elapsed.
C10_Threshold ==
    IsDefined(asked) =>
        LET a == ValueOf(asked)
        IN  /\ (InsideWindow(a) /\ a.failures.n < limiter.max) => a.allowed
            /\ (InsideWindow(a) /\ Cooling(a)) => ~a.allowed

C10_Witness ==
    /\ limiter = DefaultLimiter
    /\ IsDefined(asked)
    /\ ValueOf(asked).failures.n = 5 /\ InsideWindow(ValueOf(asked))
    /\ Cooling(ValueOf(asked)) /\ ~ValueOf(asked).allowed

---------------------------------------------------------------------------
(* The built-in limiter under interleaved validateStatus calls *)

\* max failures are recorded for the contact and the cooldown of the max-th runs
MaxReached(contact) ==
    /\ failed[contact].n >= limiter.max
    /\ clock < failed[contact].maxAt + limiter.cooldownMs

\* in this step call p enters validateStatus / returns from it
Starts(p) == calls[p].pc \in {"idle", "done"} /\ calls'[p] # calls[p]
Returns(p) == calls[p].pc # "done" /\ calls'[p].pc = "done"

C12_FullReset ==
    /\ \A c \in Contacts :
          (IsDefined(cleared[c]) /\ ValueOf(cleared[c]).n = 0) =>
              /\ attempts[c] \in {NoBucket, Some(EmptyBucket)}
              /\ inMemBeforeValidate(attempts, c, clock, limiter).allowed
    /\ (IsDefined(asked) /\ IsDefined(ValueOf(asked).sinceSuccess)) =>
          (ValueOf(ValueOf(asked).sinceSuccess).n < limiter.max => ValueOf(asked).allowed)

C12_Witness ==
    /\ IsDefined(asked) /\ IsDefined(ValueOf(asked).sinceSuccess)
    /\ ValueOf(ValueOf(asked).sinceSuccess).wasCooling
    /\ ValueOf(ValueOf(asked).sinceSuccess).n = limiter.max - 1
    /\ ValueOf(asked).allowed
    /\ ValueOf(asked).now < T0 + limiter.cooldownMs

---------------------------------------------------------------------------
(* What validateStatus returns *)

---------------------------------------------------------------------------
(* Errors *)

\* production mode, no pepper (unset or empty), no insecure-hash override
ProductionWithoutPepper ==
    /\ env.NODE_ENV = Some("production")
    /\ env.OTP_PEPPER \in {Undefined, Some("")}
    /\ env.ONEHITTER_ALLOW_INSECURE_HASH # Some("true")

\* C14: in production mode with no pepper and no override, no record is ever
\* inserted, no call reaches a SELECT or a DELETE, every create that was tried
\* was rejected by the hasher, and every validateStatus call that has ended has
\* ended with the hasher's error, no status and no hook call.
C14_GuardBeforeStorage ==
    ProductionWithoutPepper =>
        /\ otp = {} /\ lastID = 0 /\ coll = {} /\ lastOid = 0
        /\ \A k \in AttemptKeys : created[k] = 0 /\ won[k] = 0
        /\ \A e \in createLog : e.threw = "hasher"
        /\ \A p \in Slots :
              /\ calls[p].pc \in {"idle", "allowed", "done"}
              /\ calls[p].pc = "done" =>
                    /\ calls[p].result = "error" /\ calls[p].threw = "hasher"
                    /\ calls[p].status = "none"
                    /\ calls[p].hooks = <<>> /\ calls[p].deleted = 0
                    /\ calls[p].row = Undefined

C14_Witness ==
    /\ ProductionWithoutPepper
    /\ createLog # {}
    /\ otp = {}
    /\ \E p \in Slots : calls[p].pc = "done" /\ calls[p].result = "error"
                         /\ calls[p].threw = "hasher" /\ calls[p].hooks = <<>>

\* C15: a validateStatus call whose adapter call failed (the MongoDB adapter
\* chosen without a client, or a failed SQLite statement) has ended as a
\* rejection: no status returned, exactly one adapter call, no hook call.
C15_AdapterFailurePropagates ==
    \A p \in Slots :
        calls[p].threw \in {"adapter", "storage"} =>
            /\ calls[p].pc = "done"
            /\ calls[p].result = "error" /\ calls[p].result \notin Statuses \cup {"blocked"}
            /\ calls[p].adapterCalls = 1
            /\ calls[p].hooks = <<>>

C15_Witness ==
    \/ /\ currentDriver = "mongodb"
       /\ \E p \in Slots : calls[p].pc = "done" /\ calls[p].threw = "adapter"
       /\ \E e \in createLog : e.threw = "adapter"
    \/ /\ currentDriver = "sqlite"
       /\ \E p, q \in Slots :
             /\ calls[p].pc = "done" /\ calls[p].threw = "storage" /\ calls[p].sawCreate
             /\ calls[q].pc = "done" /\ calls[q].result = "ok"
             /\ KeyOf(calls[q]) = KeyAtBegin(calls[p])

\* C16 as stated: a validateStatus call in which the limiter threw has ended as a
\* rejection and has consumed no stored record.
C16_ThrowingLimiterConsumesNothing ==
    \A p \in Slots :
        calls[p].threw = "limiter" =>
            /\ calls[p].pc = "done" /\ calls[p].result = "error"
            /\ calls[p].deleted = 0

---------------------------------------------------------------------------
(* Adapter selection *)

\* the adapter the claim assigns to a call: the durable one when a handle was
\* passed, else the embedded one if DB_DRIVER equals 'sqlite', else the durable one
AdapterOwed(handle) ==
    IF handle THEN "mongodb"
    ELSE IF env.DB_DRIVER = Some("sqlite") THEN "sqlite" ELSE "mongodb"

\* C17 as stated: every create call and every validateStatus call that reached
\* its adapter used the durable adapter if a handle was passed, and otherwise
\* the configured default.
C17_AdapterByHandle ==
    /\ \A e \in createLog : e.adapter = AdapterOwed(e.handle)
    /\ \A p \in Slots :
          calls[p].adapter # "none" => calls[p].adapter = AdapterOwed(calls[p].client)

---------------------------------------------------------------------------
(* What is stored *)

Plaintexts == Contacts \cup Codes

StoredFields == {"id", "contactId", "otpHash", "createdAt"}

---------------------------------------------------------------------------
(* create inserts *)

\* the createdAt a create call owes: the supplied date, or the time of the call
CreatedAtOwed(createdAt) == IF IsDefined(createdAt) THEN ValueOf(createdAt) ELSE clock

\* a create call that resolved in the embedded backend
Inserted(a, createdAt) == Create(a, createdAt, FALSE) /\ lastID' # lastID

\* C19: every successful create adds exactly one row, whose id was never
\* assigned before, whose digests are those of the given contact and code and
\* whose createdAt is the supplied date or else the current time; every row
\* stored before is still stored unchanged, also the rows of the same
\* (contact, code).
C19_Step ==
    \A a \in Attempts, d \in SuppliedDates :
        Inserted(a, d) =>
            /\ otp \subseteq otp'
            /\ Cardinality(otp') = Cardinality(otp) + 1
            /\ \A r \in otp' \ otp :
                  /\ r.id = lastID'
                  /\ r.id > lastID
                  /\ \A old \in otp : old.id < r.id
                  /\ r.contactId = computeContactId(a.contact)
                  /\ r.otpHash = computeOtpHash(a.contact, a.otp)
                  /\ r.createdAt = CreatedAtOwed(d)

C19_NoUpsert == [][C19_Step]_vars

\* two rows of the same (contact, code) are stored, one created with a supplied
\* date and one without, after the clock moved
C19_Witness ==
    \E r1, r2 \in otp : /\ r1.id < r2.id
                        /\ r1.contactId = r2.contactId
                        /\ r1.otpHash = r2.otpHash
                        /\ r1.createdAt # r2.createdAt

---------------------------------------------------------------------------
(* Resends: several codes of one contact *)

\* call q has returned ok for another code of the contact of call p
OkForOtherCode(q, p) ==
    /\ Returned(q, "ok", p)
    /\ calls[q].otp # calls[p].otp

\* the rows of the contact of call c that carry another code than c's
RowsOfOtherCodes(rows, c) ==
    {r \in rows : /\ r.contactId = computeContactId(c.contact)
                   /\ r.otpHash # computeOtpHash(c.contact, c.otp)}

C20_Owed ==
    \A p, q \in Slots :
        OkForOtherCode(q, p) /\ Unrivalled(calls[p])
            => /\ calls[p].status = StatusOwed(calls[p])
               /\ calls[p].deleted = 1

C20_Frame ==
    \A p \in Slots :
        calls[p].pc = "delete" /\ calls'[p].pc = "resolved"
            => RowsOfOtherCodes(otp', calls[p]) = RowsOfOtherCodes(otp, calls[p])

\* C20: the DELETE of a validation leaves every row of the contact that carries
\* another code as it was; and when one code of a contact has been validated
\* with ok, the validation of another code of that contact, created once and
\* consumed by no other call, deletes its own row and gets ok (expired past the
\* TTL), whichever of the two codes was validated first.
C20_ResendsIndependent == [](C20_Owed) /\ [][C20_Frame]_vars

\* both codes of a contact were stored together, one was validated with ok and
\* then the other got ok as well
C20_Witness ==
    \E p, q \in Slots :
        /\ OkForOtherCode(q, p) /\ Unrivalled(calls[p])
        /\ calls[p].status = "ok" /\ calls[p].deleted = 1
        /\ calls[q].sawCreate /\ created[KeyOf(calls[q])] = 1
        /\ lastID = 2 /\ otp = {}

---------------------------------------------------------------------------
(* validate, the boolean form of validateStatus *)

\* the calls that have returned
Done == {p \in Slots : calls[p].pc = "done"}

\* C21: for every call that has returned, validate resolves true exactly when
\* validateStatus returned ok, and false for not_found, expired and blocked; a
\* true comes with one deleted record and the onSuccess hook, a false for
\* not_found or expired with the onFailure hook, and a false for blocked with no
\* adapter call, no deleted record and no hook.
C21_ValidateWraps ==
    \A p \in Done :
        /\ calls[p].result \in Statuses \cup {"blocked"}
        /\ validate(calls[p].result) <=> calls[p].result = "ok"
        /\ calls[p].result \in {"not_found", "expired", "blocked"} => ~validate(calls[p].result)
        /\ validate(calls[p].result) =>
              calls[p].deleted = 1 /\ calls[p].hooks = <<"onSuccess">>
        /\ (~validate(calls[p].result) /\ calls[p].allowed) =>
              calls[p].hooks = <<"onFailure">> /\ calls[p].adapterCalls = 1
        /\ (~validate(calls[p].result) /\ ~calls[p].allowed) =>
              /\ calls[p].result = "blocked"
              /\ calls[p].hooks = <<>> /\ calls[p].adapterCalls = 0 /\ calls[p].deleted = 0

\* one call resolved true, and the other resolved false on an expired record
C21_Witness ==
    \E p, q \in Done :
        /\ validate(calls[p].result)
        /\ ~validate(calls[q].result) /\ calls[q].result = "expired"

---------------------------------------------------------------------------
(* OneHitter.make and the configuration it reads (config.ts)               *)
(*                                                                         *)
(* A code is kept as its number of characters and the set of character     *)
(* classes its characters were drawn from; otpGenerator.generate appends    *)
(* one character of an allowed class until the code has `length` of them.   *)

DefaultOtpLength == 6
MaxOtpLength == 64

CharClasses == {"upperCaseAlphabets", "lowerCaseAlphabets", "digits", "specialChars"}

\* config.ts boolOf: unset gives the default, else only 'true' and '1' are true
boolOf(v, def) == IF ~IsDefined(v) THEN def ELSE ValueOf(v) \in {"true", "1"}

\* config.ts numberOf: unset gives the default, else Number(v) when finite
numberOf(v, def) ==
    IF ~IsDefined(v) THEN def
    ELSE IF NumberOfText(ValueOf(v)).finite THEN Some(NumberOfText(ValueOf(v)).n) ELSE def

\* export const OTP_LENGTH = numberOf('OTP_LENGTH', 6) ?? 6
OTP_LENGTH(e) ==
    IF IsDefined(numberOf(e.OTP_LENGTH, Some(DefaultOtpLength)))
    THEN ValueOf(numberOf(e.OTP_LENGTH, Some(DefaultOtpLength)))
    ELSE DefaultOtpLength

\* the four class flags, as the set of classes whose flag is true
ClassFlags(e) ==
    {c \in CharClasses :
        \/ c = "upperCaseAlphabets" /\ boolOf(e.OTP_LETTERS_UPPER, FALSE)
        \/ c = "lowerCaseAlphabets" /\ boolOf(e.OTP_LETTERS_LOWER, FALSE)
        \/ c = "digits" /\ boolOf(e.OTP_DIGITS, TRUE)
        \/ c = "specialChars" /\ boolOf(e.OTP_SPECIAL_CHARS, FALSE)}

Min(a, b) == IF a < b THEN a ELSE b

\* (variant: the length is not capped)
makeLengthUncapped(configured) == IF configured > 0 THEN configured ELSE DefaultOtpLength

\* make: rawLength, then Math.min(rawLength, 64)
makeLength(configured) ==
    Min(IF configured > 0 THEN configured ELSE DefaultOtpLength, MaxOtpLength)

\* (variant: the flags are passed on as they are)
makeOptionsAsGiven(base) == base

\* make: hasAny ? base : { ...base, digits: true }
makeOptions(base) == IF base # {} THEN base ELSE base \cup {"digits"}

\* codes longer than this are not generated (the uncapped variant stops here)
MaxGenerated == MaxOtpLength + 2

MakerEnvs ==
    [OTP_LENGTH : {Undefined, Some(""), Some("0"), Some("-1"), Some("abc"),
                   Some("1"), Some("2"), Some("64"), Some("65")},
     OTP_LETTERS_UPPER : {Undefined, Some("1")},
     OTP_LETTERS_LOWER : {Some("false"), Some("true")},
     OTP_DIGITS : {Undefined, Some("true"), Some("false")},
     OTP_SPECIAL_CHARS : {Undefined, Some("true")}]

\* make() is called: the length and the options are resolved
Make ==
    /\ maker.pc \in {"idle", "returned"}
    /\ maker' = [maker EXCEPT !.pc = "generating",
                              !.length = makeLength(OTP_LENGTH(maker.env)),
                              !.options = makeOptions(ClassFlags(maker.env)),
                              !.code = [length |-> 0, classes |-> {}]]
    /\ UNCHANGED <<legacy, ensure, auth, mail, env, hasMongo, limiter, attempts, clock, otp, lastID, coll, lastOid,
                   calls, created, born, won, okSeen, expiredSeen, failed, asked, cleared,
                   createLog>>

\* otpGenerator.generate draws one more character from an allowed class
Generate ==
    /\ maker.pc = "generating"
    /\ maker.code.length < maker.length
    /\ maker.code.length < MaxGenerated
    /\ \E c \in maker.options :
          maker' = [maker EXCEPT !.code = [length |-> @.length + 1,
                                           classes |-> @.classes \cup {c}]]
    /\ UNCHANGED <<legacy, ensure, auth, mail, env, hasMongo, limiter, attempts, clock, otp, lastID, coll, lastOid,
                   calls, created, born, won, okSeen, expiredSeen, failed, asked, cleared,
                   createLog>>

\* the code has `length` characters and make returns it
MakeReturns ==
    /\ maker.pc = "generating"
    /\ maker.code.length >= maker.length
    /\ maker' = [maker EXCEPT !.pc = "returned"]
    /\ UNCHANGED <<legacy, ensure, auth, mail, env, hasMongo, limiter, attempts, clock, otp, lastID, coll, lastOid,
                   calls, created, born, won, okSeen, expiredSeen, failed, asked, cleared,
                   createLog>>

InitMake ==
    /\ env \in {e \in Envs : e.DB_DRIVER = Some("sqlite") /\ e.OTP_EXPIRY = Undefined}
    /\ hasMongo = FALSE
    /\ limiter = NoLimiterOptions
    /\ InitStorage
    /\ maker \in {[IdleMaker EXCEPT !.env = e] : e \in MakerEnvs}
    /\ auth = IdleAuth
    /\ mail = IdleMail
    /\ legacy = IdleLegacy
    /\ ensure = IdleEnsure

NextMake == Make \/ Generate \/ MakeReturns

SpecMake == InitMake /\ [][NextMake]_vars

\* the length the configured text stands for: Number(text), or nothing when the
\* variable is unset or its text is no number
ConfiguredLength == NumberOfEnv(maker.env.OTP_LENGTH)

ClassesOwed ==
    IF ClassFlags(maker.env) = {} THEN {"digits"} ELSE ClassFlags(maker.env)

\* C23: for every combination of the four class flags, the set of classes the
\* generator draws from is never empty, it is the set of enabled classes, or
\* the digits alone when all four flags are false, and every character of the
\* code, while it is generated and when it is returned, is of one of them.
C23_CharacterPolicy ==
    maker.pc \in {"generating", "returned"} =>
        /\ maker.options # {}
        /\ maker.options = ClassesOwed
        /\ maker.code.classes \subseteq ClassesOwed

\* a code was returned with all four flags false
C23_Witness ==
    /\ maker.pc = "returned"
    /\ ClassFlags(maker.env) = {}
    /\ maker.code.classes = {"digits"}
    /\ maker.code.length > 0

---------------------------------------------------------------------------
(* src/src/auth-otp-service.ts                                             *)
(*                                                                         *)
(* The OneHitter of the service may be injected (deps.oneHitter), so the    *)
(* status its validateStatus resolves with is any string, here one of the   *)
(* four statuses or another one. An object is a set of <<key, value>>       *)
(* pairs; authTime is left out of the payloads.                             *)

AUTH_SUCCESS == "auth:success"
AUTH_FAILURE == "auth:failure"

\* what the injected validateStatus may resolve with
StubStatuses == Statuses \cup {"blocked", "weird-status"}

\* the `extra` bags a caller passes: none, a bag of its own fields, and bags
\* that have a field named like a field of the payload
Extras ==
    {Undefined, Some({<<"ip", "203.0.113.42">>}), Some({<<"reason", "ok">>}),
     Some({<<"userId", "other@b.com">>})}

Keys(object) == {kv[1] : kv \in object}

\* { ...base, ...(extra ?? {}) }: the fields of extra replace those of base
Spread(base, extra) ==
    LET bag == IF IsDefined(extra) THEN ValueOf(extra) ELSE {}
    IN  {kv \in base : kv[1] \notin Keys(bag)} \cup bag

\* the default buildPayload
buildPayload(userId, extra) == Spread({<<"userId", userId>>}, extra)

\* the default buildFailurePayload
buildFailurePayload(userId, reason, extra) ==
    Spread({<<"userId", userId>>, <<"reason", reason>>}, extra)

\* (variant: the status is passed on as the reason)
failureReasonAsIs(status) == status

\* the public failure reason of a status
failureReason(status) ==
    IF status \in {"expired", "not_found", "blocked"} THEN status ELSE "unknown"

AuthFrame ==
    UNCHANGED <<legacy, ensure, maker, mail, env, hasMongo, limiter, attempts, clock, otp, lastID, coll, lastOid,
                calls, created, born, won, okSeen, expiredSeen, failed, asked, cleared,
                createLog>>

\* authenticateUser(otp, userId, extra) is called and awaits validateStatus
AuthBegin(p, code, userId, extra) ==
    /\ auth.slots[p].pc \in {"idle", "returned", "rejected"}
    /\ auth.started < MaxAuthCalls
    /\ auth' = [auth EXCEPT !.started = @ + 1,
                            !.slots[p] = [pc |-> "awaiting", id |-> auth.started + 1,
                                          userId |-> userId, otp |-> code, extra |-> extra,
                                          status |-> "none", returned |-> Undefined]]
    /\ AuthFrame

\* validateStatus resolves: the event is emitted and the call returns, in one
\* synchronous run
AuthSettle(p, status) ==
    LET c == auth.slots[p]
        event == IF status = "ok"
                 THEN [id |-> c.id, type |-> AUTH_SUCCESS,
                       payload |-> buildPayload(c.userId, c.extra)]
                 ELSE [id |-> c.id, type |-> AUTH_FAILURE,
                       payload |-> buildFailurePayload(c.userId, failureReason(status),
                                                        c.extra)]
    IN  /\ c.pc = "awaiting"
        /\ auth' = [auth EXCEPT !.events = Append(@, event),
                                !.slots[p] = [c EXCEPT !.pc = "returned", !.status = status,
                                                       !.returned = Some(status = "ok")]]
        /\ AuthFrame

\* validateStatus rejects: authenticateUser rejects and emits nothing
AuthRejects(p) ==
    /\ auth.slots[p].pc = "awaiting"
    /\ auth' = [auth EXCEPT !.slots[p].pc = "rejected"]
    /\ AuthFrame

InitAuth ==
    /\ env \in {e \in Envs : e.DB_DRIVER = Some("sqlite") /\ e.OTP_EXPIRY = Undefined}
    /\ hasMongo = FALSE
    /\ limiter = NoLimiterOptions
    /\ InitStorage
    /\ maker = IdleMaker
    /\ auth = IdleAuth
    /\ mail = IdleMail
    /\ legacy = IdleLegacy
    /\ ensure = IdleEnsure

NextAuth ==
    \/ \E p \in Slots, code \in Codes, userId \in Contacts, extra \in Extras :
          AuthBegin(p, code, userId, extra)
    \/ \E p \in Slots, status \in StubStatuses : AuthSettle(p, status)
    \/ \E p \in Slots : AuthRejects(p)

SpecAuth == InitAuth /\ [][NextAuth]_vars

\* the events emitted for the call with this id
EventsOf(id) == {i \in 1..Len(auth.events) : auth.events[i].id = id}

\* the value of a field of a payload
Field(payload, key) == {kv[2] : kv \in {f \in payload : f[1] = key}}

\* C24 as stated: every completed authenticateUser call has emitted exactly one
\* event; it is AUTH_SUCCESS with return value true if and only if
\* validateStatus returned ok, and otherwise AUTH_FAILURE with return value
\* false and a reason that is the status for not_found, expired and blocked and
\* 'unknown' for any other status.
C24_OneEventPerCall ==
    \A p \in Slots :
        LET c == auth.slots[p]
        IN  c.pc = "returned" =>
              /\ Cardinality(EventsOf(c.id)) = 1
              /\ \A i \in EventsOf(c.id) :
                    /\ (auth.events[i].type = AUTH_SUCCESS /\ c.returned = Some(TRUE))
                          <=> c.status = "ok"
                    /\ c.status # "ok" =>
                          /\ auth.events[i].type = AUTH_FAILURE
                          /\ c.returned = Some(FALSE)
                          /\ Field(auth.events[i].payload, "reason") =
                                {IF c.status \in {"not_found", "expired", "blocked"}
                                 THEN c.status ELSE "unknown"}

---------------------------------------------------------------------------
(* src/src/sender.ts and OneHitter.send                                    *)
(*                                                                         *)
(* Everything send does before transporter.sendMail is synchronous, so the  *)
(* checks and the hand-over are one step; the delivery settles later.       *)

Whitespace == {"  "}

\* String(x).trim()
Trim(text) == IF text \in Whitespace THEN "" ELSE text

\* (variant: nothing is ever missing)
MissingNever(v) == FALSE

\* !x || String(x).trim().length === 0
Missing(v) == ~IsDefined(v) \/ ValueOf(v) = "" \/ Trim(ValueOf(v)) = ""

Recipients == {"", "  ", "a@b.com"}

MailEnvs ==
    [OTP_URL : {Undefined, Some(""), Some("https://x")},
     OTP_MESSAGE_FROM : {Undefined, Some(""), Some("noreply@b.com")}]

\* the message option: none, a template function, or a config object with an
\* optional template and an optional from
Messages ==
    {[kind |-> "none", templateFrom |-> Undefined, from |-> Undefined]}
    \cup [kind : {"function"}, templateFrom : {Undefined, Some(""), Some("fn@b.com")},
          from : {Undefined}]
    \cup [kind : {"config"}, templateFrom : {Undefined, Some("  ")},
          from : {Undefined, Some(""), Some("cfg@b.com")}]

\* resolveMessage: override.from
overrideFrom(message) ==
    CASE message.kind = "function" -> message.templateFrom
      [] message.kind = "config" ->
            IF IsDefined(message.from) /\ ValueOf(message.from) # ""
            THEN message.from ELSE message.templateFrom
      [] OTHER -> Undefined

\* resolveMessage: from = override.from ?? OTP_MESSAGE_FROM
resolveFrom(message) ==
    IF IsDefined(overrideFrom(message)) THEN overrideFrom(message)
    ELSE mail.env.OTP_MESSAGE_FROM

\* sender.ts send up to the sendMail call: the error thrown, or none
sendError(to) ==
    IF Missing(Some(to)) THEN "Missing recipient email"
    ELSE IF Missing(resolveFrom(mail.message)) THEN "Missing sender address"
    ELSE "none"

\* OneHitter.send up to the sendMail call: the error thrown, or none
oneHitterSendError(to) ==
    IF Missing(mail.env.OTP_URL) THEN "Missing OTP_URL" ELSE sendError(to)

MailFrame ==
    UNCHANGED <<legacy, ensure, auth, maker, env, hasMongo, limiter, attempts, clock, otp, lastID, coll,
                lastOid, calls, created, born, won, okSeen, expiredSeen, failed, asked,
                cleared, createLog>>

\* a send call runs up to its first await
Dispatch(via, to, url, error) ==
    /\ mail.pc = "idle"
    /\ Len(mail.log) < MaxSends
    /\ mail' = [mail EXCEPT
          !.pc = IF error = "none" THEN "sending" ELSE "idle",
          !.log = Append(@, [via |-> via, to |-> to, url |-> url,
                             from |-> resolveFrom(mail.message),
                             outcome |-> IF error = "none" THEN "pending" ELSE "rejected",
                             error |-> error,
                             sentBefore |-> Len(mail.sent)]),
          !.sent = IF error = "none"
                   THEN Append(@, [from |-> resolveFrom(mail.message), to |-> to])
                   ELSE @]
    /\ MailFrame

\* OneHitter.send(to, otp)
OneHitterSend(to) == Dispatch("OneHitter.send", to, mail.env.OTP_URL, oneHitterSendError(to))

\* send(to, otp, url, ...) of sender.ts called directly
SendEmail(to, url) == Dispatch("send", to, Some(url), sendError(to))

\* transporter.sendMail settles
SendMailSettles(outcome) ==
    /\ mail.pc = "sending"
    /\ mail' = [mail EXCEPT !.pc = "idle",
                            !.log[Len(mail.log)].outcome = outcome,
                            !.log[Len(mail.log)].error =
                                  IF outcome = "rejected" THEN "transport" ELSE "none"]
    /\ MailFrame

InitMail ==
    /\ env \in {e \in Envs : e.DB_DRIVER = Some("sqlite") /\ e.OTP_EXPIRY = Undefined}
    /\ hasMongo = FALSE
    /\ limiter = NoLimiterOptions
    /\ InitStorage
    /\ maker = IdleMaker
    /\ auth = IdleAuth
    /\ mail \in {[IdleMail EXCEPT !.env = e, !.message = m] : e \in MailEnvs, m \in Messages}
    /\ legacy = IdleLegacy
    /\ ensure = IdleEnsure

NextMail ==
    \/ \E to \in Recipients : OneHitterSend(to)
    \/ \E to \in Recipients, url \in {"", "https://x"} : SendEmail(to, url)
    \/ \E outcome \in {"resolved", "rejected"} : SendMailSettles(outcome)

SpecMail == InitMail /\ [][NextMail]_vars

\* absent or the empty string
Empty(v) == ~IsDefined(v) \/ ValueOf(v) = ""

\* the send calls that lacked a recipient, a sender address or, through
\* OneHitter.send, the OTP_URL
Unconfigured ==
    {i \in 1..Len(mail.log) :
        \/ mail.log[i].to = ""
        \/ Empty(mail.log[i].from)
        \/ mail.log[i].via = "OneHitter.send" /\ Empty(mail.log[i].url)}

\* C25: a send call with an empty recipient, an empty resolved sender address
\* or, through OneHitter.send, an empty OTP_URL has rejected with an error and
\* transporter.sendMail was not invoked by it; sendMail was invoked exactly once
\* by each of the other calls.
C25_SendFailsLoudly ==
    /\ \A i \in Unconfigured :
          /\ mail.log[i].outcome = "rejected"
          /\ mail.log[i].error \in {"Missing recipient email", "Missing sender address",
                                     "Missing OTP_URL"}
          /\ i < Len(mail.log) => mail.log[i + 1].sentBefore = mail.log[i].sentBefore
          /\ i = Len(mail.log) => Len(mail.sent) = mail.log[i].sentBefore
    /\ \A m \in 1..Len(mail.sent) : mail.sent[m].to # "" /\ ~Empty(mail.sent[m].from)

\* one call was rejected for a missing sender, another for a missing OTP_URL
C25_Witness ==
    \E i, j \in Unconfigured :
        /\ mail.log[i].error = "Missing sender address" /\ mail.log[i].to # ""
        /\ mail.log[j].error = "Missing OTP_URL"

---------------------------------------------------------------------------
(* Which of several matching rows the embedded backend takes *)

\* call p runs its SELECT in this step and finds a row
Selects(p) == calls[p].pc = "select" /\ calls'[p].pc = "delete"

\* call p runs its DELETE in this step
Deletes(p) == calls[p].pc = "delete" /\ calls'[p].pc = "resolved"

\* the DELETE of call p removes exactly the row it selected, if it is still
\* stored, and changes no other row
DeletesSelectedOnly(p) ==
    Deletes(p) => otp' = {r \in otp : r.id # ValueOf(calls[p].row).id}

\* C26 as stated: the row a SELECT takes is, among the stored rows matching the
\* attempt, the one with the greatest createdAt, ties broken by the highest id;
\* the DELETE removes that row only.
C26_NewestByCreatedAt ==
    [][\A p \in Slots :
          /\ Selects(p) =>
                \A r \in RowsNamedBy(calls[p]) :
                    \/ r.createdAt < ValueOf(calls'[p].row).createdAt
                    \/ /\ r.createdAt = ValueOf(calls'[p].row).createdAt
                       /\ r.id <= ValueOf(calls'[p].row).id
          /\ DeletesSelectedOnly(p)]_vars

\* C26, amended: the row a SELECT takes is, among the stored rows matching the
\* attempt, the one with the highest id, whatever the createdAt values are; the
\* DELETE removes that row only and the status is classified on the createdAt
\* of that row.
C26_NewestById ==
    [][\A p \in Slots :
          /\ Selects(p) =>
                /\ \E r \in RowsNamedBy(calls[p]) :
                      /\ r.id = ValueOf(calls'[p].row).id
                      /\ r.createdAt = ValueOf(calls'[p].row).createdAt
                /\ \A r \in RowsNamedBy(calls[p]) : r.id <= ValueOf(calls'[p].row).id
          /\ DeletesSelectedOnly(p)
          /\ (Deletes(p) /\ calls'[p].status \in {"ok", "expired"}) =>
                (calls'[p].status = "expired"
                   <=> /\ TtlPositive
                       /\ calls[p].now - ValueOf(calls[p].row).createdAt > TtlMs)]_vars

\* a call has selected the row with the highest id while a matching row with a
\* later createdAt is stored
C26_Witness ==
    \E p \in Slots :
        /\ calls[p].pc = "delete"
        /\ \E r \in RowsNamedBy(calls[p]) :
              /\ r.id < ValueOf(calls[p].row).id
              /\ r.createdAt > ValueOf(calls[p].row).createdAt

---------------------------------------------------------------------------
(* An external cleanup of the embedded table *)

\* the application's own cleanup removes a row that is past the expiry
SweepRows ==
    /\ TtlPositive
    /\ \E r \in otp :
          /\ clock - r.createdAt > TtlMs
          /\ otp' = otp \ {r}
    /\ UNCHANGED <<legacy, ensure, auth, maker, mail, env, hasMongo, limiter, attempts, clock, lastID, coll,
                   lastOid, calls, created, born, won, okSeen, expiredSeen, failed, asked,
                   cleared, createLog>>

InitSwept ==
    /\ env \in {e \in Envs : e.DB_DRIVER = Some("sqlite") /\ e.OTP_EXPIRY = Some("1")}
    /\ hasMongo = FALSE
    /\ limiter = NoLimiterOptions
    /\ InitStore

NextSwept ==
    \/ \E a \in Attempts, d \in SuppliedDates : Create(a, d, FALSE)
    \/ \E p \in Slots, a \in Attempts : Begin(p, a, FALSE)
    \/ \E p \in Slots : AdapterCall(p)
    \/ \E p \in Slots : Select(p)
    \/ \E p \in Slots : Delete(p)
    \/ \E p \in Slots : Hook(p)
    \/ SweepRows
    \/ Tick

SpecSwept == InitSwept /\ [][NextSwept]_vars

\* the row call p selected is no longer stored
SelectedRowGone(p) == \A r \in otp : r.id # ValueOf(calls[p].row).id

\* C27: with a cleanup that may remove an aged row at any moment, a call whose
\* SELECT finds no row, or whose selected row is gone when its DELETE runs,
\* resolves not_found (not expired, not ok, no rejection) and deletes nothing.
C27_SweptIsNotFound ==
    [][\A p \in Slots :
          /\ (calls[p].pc = "select" /\ calls'[p].pc # "select"
                 /\ RowsNamedBy(calls[p]) = {})
                => /\ calls'[p].pc = "resolved" /\ calls'[p].status = "not_found"
                   /\ calls'[p].threw = "none" /\ calls'[p].deleted = calls[p].deleted
          /\ (Deletes(p) /\ SelectedRowGone(p))
                => /\ calls'[p].status = "not_found"
                   /\ calls'[p].threw = "none" /\ calls'[p].deleted = calls[p].deleted
                   /\ otp' = otp]_vars

\* a call selected the only record of its attempt, the cleanup removed the
\* aged record before the DELETE, no call consumed it, and the call returned
\* not_found
C27_Witness ==
    \E p \in Slots :
        /\ calls[p].pc = "done" /\ calls[p].result = "not_found"
        /\ calls[p].lostRace /\ calls[p].sawCreate
        /\ created[KeyOf(calls[p])] = 1 /\ won[KeyOf(calls[p])] = 0
        /\ RowsNamedBy(calls[p]) = {}

---------------------------------------------------------------------------
(* otpValidateWithStatus of the embedded backend called with a ttlSeconds   *)

\* the ttlSeconds a caller passes: none, a number, or NaN / Infinity
TtlArguments ==
    {Undefined, Some([finite |-> TRUE, n |-> 1]), Some([finite |-> TRUE, n |-> 0]),
     Some([finite |-> TRUE, n |-> 0 - 1]), Some([finite |-> FALSE, n |-> 0])}

DirectEnvs ==
    [DB_DRIVER : {Some("sqlite")},
     OTP_EXPIRY : {Undefined, Some("1"), Some("0"), Some("-1"), Some(""), Some("abc")},
     OTP_PEPPER : {Some("pepper")},
     NODE_ENV : {Undefined},
     ONEHITTER_ALLOW_INSECURE_HASH : {Undefined}]

\* otpValidateWithStatus(otp, new Date(), ttlSeconds) is called
DirectCall(p, a, ttlSeconds) ==
    /\ p = FreeSlot
    /\ calls' = [calls EXCEPT ![p] =
                    [NewCall(a, FALSE) EXCEPT !.pc = "select", !.adapter = "sqlite",
                                              !.now = clock, !.ttlSeconds = ttlSeconds]]
    /\ UNCHANGED <<legacy, ensure, auth, maker, mail, env, hasMongo, limiter, attempts, clock, otp, lastID, coll,
                   lastOid, created, born, won, okSeen, expiredSeen, failed, asked, cleared,
                   createLog>>

\* the promise of otpValidateWithStatus resolves
DirectReturns(p) ==
    /\ calls[p].pc = "resolved"
    /\ calls' = [calls EXCEPT ![p] = [calls[p] EXCEPT !.pc = "done", !.result = calls[p].status,
                                     !.now = 0, !.row = Undefined,
                                     !.ttlSeconds = Undefined]]
    /\ UNCHANGED <<legacy, ensure, auth, maker, mail, env, hasMongo, limiter, attempts, clock, otp, lastID, coll,
                   lastOid, created, born, won, okSeen, expiredSeen, failed, asked, cleared,
                   createLog>>

InitDirect ==
    /\ env \in DirectEnvs
    /\ hasMongo = FALSE
    /\ limiter = NoLimiterOptions
    /\ InitStore

\* the direct calls are made one at a time
NextDirect ==
    \/ \E a \in Attempts : Create(a, Undefined, FALSE)
    \/ \E a \in Attempts, ttlSeconds \in TtlArguments : DirectCall(1, a, ttlSeconds)
    \/ \E p \in Slots : Select(p)
    \/ \E p \in Slots : Delete(p)
    \/ \E p \in Slots : DirectReturns(p)
    \/ Tick

SpecDirect == InitDirect /\ [][NextDirect]_vars

\* the call has consumed the row it selected
ConsumedRow(c) == c.pc \in {"resolved", "done"} /\ c.deleted = 1

\* the age, in milliseconds, of the row a call consumed
ConsumedAge(c) == c.now - ValueOf(c.row).createdAt

\* the ttlSeconds argument is a positive finite number
PositiveFinite(ttlSeconds) ==
    IsDefined(ttlSeconds) /\ ValueOf(ttlSeconds).finite /\ ValueOf(ttlSeconds).n > 0

\* C28 as stated: a call that consumed a record reports expired exactly when
\* the ttlSeconds it was given is a positive finite number and the record is
\* older than it; with ttlSeconds absent, zero, negative or not finite it
\* reports ok at any age.
C28_TtlGivenDecides ==
    \A p \in Slots :
        (ConsumedRow(calls[p]) /\ calls[p].pc = "resolved") =>
            calls[p].status =
                (IF /\ PositiveFinite(calls[p].ttlSeconds)
                    /\ ConsumedAge(calls[p]) > ValueOf(calls[p].ttlSeconds).n * 1000
                 THEN "expired" ELSE "ok")

\* the ttl in force: OTP_EXPIRY when its text is a finite number, else the
\* ttlSeconds given; nothing when neither is a finite number
TtlInForce(ttlSeconds) ==
    IF NumberOfEnv(env.OTP_EXPIRY).finite THEN Some(NumberOfEnv(env.OTP_EXPIRY).n)
    ELSE IF IsDefined(ttlSeconds) /\ ValueOf(ttlSeconds).finite
         THEN Some(ValueOf(ttlSeconds).n) ELSE Undefined

\* C28, amended: a call that consumed a record reports expired exactly when the
\* ttl in force is positive and the record is older than it, and ok otherwise;
\* the ttl in force is OTP_EXPIRY whenever that is a finite number (also 0,
\* which disables expiry), and the ttlSeconds given only otherwise.
C28_TtlInForceDecides ==
    \A p \in Slots :
        (ConsumedRow(calls[p]) /\ calls[p].pc = "resolved") =>
            calls[p].status =
                (IF /\ IsDefined(TtlInForce(calls[p].ttlSeconds))
                    /\ ValueOf(TtlInForce(calls[p].ttlSeconds)) > 0
                    /\ ConsumedAge(calls[p]) >
                          ValueOf(TtlInForce(calls[p].ttlSeconds)) * 1000
                 THEN "expired" ELSE "ok")

\* a call given ttlSeconds = 1 consumed a record two seconds old and reported
\* ok, because OTP_EXPIRY is 0
C28_Witness ==
    \E p \in Slots :
        /\ ConsumedRow(calls[p]) /\ calls[p].pc = "resolved"
        /\ calls[p].ttlSeconds = Some([finite |-> TRUE, n |-> 1])
        /\ env.OTP_EXPIRY = Some("0")
        /\ ConsumedAge(calls[p]) > 1000
        /\ calls[p].status = "ok"

---------------------------------------------------------------------------
(* An InMemoryRateLimiter built with options of every kind: a threshold of    *)
(* none, one or two failures, a window of no, one or two seconds, a cooldown  *)
(* of no time or one second                                                   *)

TunedLimiters ==
    [kind : {"inmem"}, max : {0, 1, 2}, windowMs : {0, TickMs, 2 * TickMs},
     cooldownMs : {0, TickMs}]

InitTuned ==
    /\ env \in {e \in Envs : e.DB_DRIVER = Undefined /\ e.OTP_EXPIRY = Undefined}
    /\ hasMongo = FALSE
    /\ limiter \in TunedLimiters
    /\ InitStore

NextTuned ==
    \/ \E contact \in Contacts : LimiterBefore(contact)
    \/ \E contact \in Contacts : LimiterFailure(contact)
    \/ \E contact \in Contacts : LimiterSuccess(contact)
    \/ Tick

SpecTuned == InitTuned /\ [][NextTuned]_vars

\* the cooldown of the contact's bucket is set and has elapsed
CooldownElapsed(att, contact, now) ==
    /\ att[contact] # NoBucket
    /\ CooldownSet(bucket(att, contact))
    /\ ValueOf(bucket(att, contact).cooldownUntil) <= now

\* the call leaves the bucket with no cooldown and no failure
ClearsBucket(contact) == attempts'[contact] = Some(EmptyBucket)

\* C29 as stated: a beforeValidate made when the contact's cooldown is set and has
\* elapsed (cooldownUntil <= now) clears the cooldown and the whole failure
\* history and returns true, whatever max, windowMs and cooldownMs are.
C29_ExitReturnsTrue ==
    [][\A contact \in Contacts :
         LimiterBefore(contact) /\ CooldownElapsed(attempts, contact, clock)
         => ClearsBucket(contact) /\ ValueOf(asked').allowed]_vars

\* C29 as the code has it: such a call clears the cooldown and the whole failure
\* history whatever the options are, and returns true exactly when max is at
\* least 1; with max 0 it returns false like every other call.
C29_ExitClears ==
    [][\A contact \in Contacts :
         LimiterBefore(contact) /\ CooldownElapsed(attempts, contact, clock)
         => /\ ClearsBucket(contact)
            /\ ValueOf(asked').allowed = (limiter.max >= 1)]_vars

\* a call has just left an elapsed cooldown set by two failures, and was allowed
C29_Witness ==
    /\ IsDefined(asked)
    /\ ValueOf(asked).allowed
    /\ ValueOf(asked).now = clock
    /\ limiter.max = 2
    /\ ValueOf(asked).failures.n >= 2
    /\ ValueOf(asked).now >= ValueOf(asked).failures.maxAt + limiter.cooldownMs
    /\ attempts[ValueOf(asked).contact] = Some(EmptyBucket)

\* the failures stored for the contact that are no older than the window
RecentFailures(att, contact, now) ==
    Len(SelectSeq(bucket(att, contact).times, LAMBDA t : now - t <= limiter.windowMs))

\* the history stored for the contact holds no timestamp older than the window
NothingOlder(att, contact, now) ==
    \A i \in 1..Len(bucket(att, contact).times) :
        now - bucket(att, contact).times[i] <= limiter.windowMs

\* C30: failures older than windowMs do not count: a beforeValidate made with
\* fewer than max failures inside the last windowMs and no cooldown running
\* returns true however many older failures are stored, and after every
\* beforeValidate and every onFailure the stored history of the contact holds no
\* timestamp older than windowMs.
C30_RollingWindow ==
    [][\A contact \in Contacts :
         /\ ( /\ LimiterBefore(contact)
              /\ RecentFailures(attempts, contact, clock) < limiter.max
              /\ ~InCooldown(attempts, contact, clock) )
            => ValueOf(asked').allowed
         /\ LimiterBefore(contact) \/ LimiterFailure(contact)
            => NothingOlder(attempts', contact, clock)]_vars

\* a call was allowed with max 2 after one failure that had left the window,
\* and the history it found is gone
C30_Witness ==
    /\ IsDefined(asked)
    /\ ValueOf(asked).allowed
    /\ ValueOf(asked).now = clock
    /\ limiter.max = 2
    /\ ValueOf(asked).failures.n = 1
    /\ ValueOf(asked).now - ValueOf(asked).failures.first > limiter.windowMs
    /\ attempts[ValueOf(asked).contact] = Some(EmptyBucket)

---------------------------------------------------------------------------
(* Claims about stored records as a whole                                     *)

\* the row is stored unchanged after the step, or no row of its id is stored
KeptOrGone(r) == r \in otp' \/ \A r2 \in otp' : r2.id # r.id

\* C31: no operation of the engine updates a stored record: from its insertion
\* by create to its deletion by a validation or by the cleanup, the contactId,
\* otpHash and createdAt of a row never change.
C31_RecordsImmutable == [][\A r \in otp : KeptOrGone(r)]_vars

\* the first row is still stored after a second create for its contact, a
\* finished validation and the passing of time
C31_Witness ==
    /\ lastID = 2
    /\ clock > T0
    /\ \E r \in otp, r2 \in otp :
          r.id = 1 /\ r2.id = 2 /\ r2.contactId = r.contactId /\ r.createdAt < r2.createdAt
    /\ \E p \in Slots : calls[p].pc = "done"

---------------------------------------------------------------------------
(* The legacy JavaScript engine: onehitter.js over db/mongodb-functions.js,   *)
(* which stores the document it is given and validates by findOne, deleteOne  *)

\* the documents an exact-match query for the attempt selects
legacyMatching(docs, a) == {d \in docs : d.contact = a.contact /\ d.otp = a.otp}

\* cursor.findOne(otp): some matching document, or none
legacyFound(docs, a) == legacyMatching(docs, a) # {}

\* cursor.deleteOne(otp): the collection without one of the matching documents
legacyDeleteOne(docs, a) ==
    IF legacyMatching(docs, a) = {} THEN {docs}
    ELSE {docs \ {d} : d \in legacyMatching(docs, a)}

LegacyFrame ==
    UNCHANGED <<ensure, auth, maker, mail, env, hasMongo, limiter, attempts, clock, otp, lastID,
                coll, lastOid, calls, created, born, won, okSeen, expiredSeen, failed, asked,
                cleared, createLog>>

\* otpCreate(client, otp): createdAt defaults to now; a document that already
\* carries an _id is not inserted
LegacyCreate(a, hasId) ==
    /\ legacy.lastId < MaxCreates
    /\ legacy' =
         IF hasId THEN legacy
         ELSE [legacy EXCEPT
                 !.docs = @ \cup {[id |-> legacy.lastId + 1, contact |-> a.contact,
                                   otp |-> a.otp, createdAt |-> clock]},
                 !.lastId = @ + 1,
                 !.inserted[a] = @ + 1]
    /\ LegacyFrame

\* otpValidate(client, otp) up to the answer of findOne: nothing found returns false
LegacyFindOne(p, a) ==
    /\ legacy.calls[p].pc \in {"idle", "done"}
    /\ legacy' =
         [legacy EXCEPT
            !.calls[p] = IF legacyFound(legacy.docs, a)
                         THEN [pc |-> "deleteOne", otp |-> Some(a), result |-> Undefined]
                         ELSE [pc |-> "done", otp |-> Some(a), result |-> Some(FALSE)]]
    /\ LegacyFrame

\* otpValidate after findOne found a document: deleteOne, then return true
LegacyDeleteOne(p) ==
    /\ legacy.calls[p].pc = "deleteOne"
    /\ \E docs \in legacyDeleteOne(legacy.docs, ValueOf(legacy.calls[p].otp)) :
          legacy' = [legacy EXCEPT
                       !.docs = docs,
                       !.calls[p] = [@ EXCEPT !.pc = "done", !.result = Some(TRUE)],
                       !.trues[ValueOf(legacy.calls[p].otp)] = @ + 1]
    /\ LegacyFrame

InitLegacy ==
    /\ env \in {e \in Envs : e.DB_DRIVER = Undefined /\ e.OTP_EXPIRY = Undefined}
    /\ hasMongo = TRUE
    /\ limiter = NoLimiterOptions
    /\ InitStore

NextLegacy ==
    \/ \E a \in Attempts, hasId \in BOOLEAN : LegacyCreate(a, hasId)
    \/ \E p \in Slots, a \in Attempts : LegacyFindOne(p, a)
    \/ \E p \in Slots : LegacyDeleteOne(p)

SpecLegacy == InitLegacy /\ [][NextLegacy]_vars

\* C32: the legacy otpValidate keeps the single-use guarantee: for the documents
\* stored for a (contact, code), no more otpValidate calls return true than
\* documents were inserted, also when the calls run concurrently.
C32_LegacySingleUse ==
    \A a \in Attempts : legacy.trues[a] <= legacy.inserted[a]

---------------------------------------------------------------------------
(* ensureCreatedAtTTLIndex(client, ttlSeconds) of db/ensure-ttl.ts, called on *)
(* a collection that has an _id index, perhaps an index on contact, and       *)
(* perhaps a TTL index on createdAt under the helper's name or another one    *)

DefaultIndexName == "onehitter_createdAt_ttl"

Index(name, key, expireAfterSeconds) ==
    [name |-> name, key |-> key, expireAfterSeconds |-> expireAfterSeconds]

\* the ttl values the helper is called with, and the ones found on an index
TtlValues == {60, 1800}

InitialIndexes ==
    {{Index("_id_", "_id", Undefined)} \cup plain \cup ttl :
       plain \in {{}, {Index("contact_1", "contact", Undefined)}},
       ttl \in {{}} \cup {{Index(name, "createdAt", Some(t))} :
                            name \in {DefaultIndexName, "createdAt_1"}, t \in TtlValues}}

\* idx.key && idx.key.createdAt === 1 && typeof idx.expireAfterSeconds !== 'undefined'
isCreatedAtTtl(idx) == idx.key = "createdAt" /\ IsDefined(idx.expireAfterSeconds)

\* indexes.find(...): the TTL index on createdAt, if there is one
findExisting(indexes) ==
    IF \E idx \in indexes : isCreatedAtTtl(idx)
    THEN Some(CHOOSE idx \in indexes : isCreatedAtTtl(idx))
    ELSE Undefined

\* existing?.name || 'onehitter_createdAt_ttl'
indexName(existing) ==
    IF IsDefined(existing) THEN ValueOf(existing).name ELSE DefaultIndexName

\* a helper that recreates every index it finds
ensureActionRecreate(existing, ttlSeconds) ==
    IF IsDefined(existing) THEN "updated" ELSE "created"

\* which of the three branches the helper takes
ensureAction(existing, ttlSeconds) ==
    IF ~IsDefined(existing) THEN "created"
    ELSE IF ValueOf(ValueOf(existing).expireAfterSeconds) # ttlSeconds THEN "updated"
    ELSE "unchanged"

\* coll.dropIndex(name), coll.createIndex({createdAt: 1}, {expireAfterSeconds, name})
dropIndex(indexes, name) == {idx \in indexes : idx.name # name}

createIndex(indexes, name, ttlSeconds) ==
    indexes \cup {Index(name, "createdAt", Some(ttlSeconds))}

EnsureFrame ==
    UNCHANGED <<legacy, auth, maker, mail, env, hasMongo, limiter, attempts, clock, otp, lastID,
                coll, lastOid, calls, created, born, won, okSeen, expiredSeen, failed, asked,
                cleared, createLog>>

\* the call starts: it throws when MONGO_DATABASE or MONGO_COLLECTION is not
\* set, and otherwise asks for the indexes
EnsureCall(ttlSeconds) ==
    /\ ensure.pc \in {"idle", "done", "threw"}
    /\ ensure' =
         [ensure EXCEPT
            !.pc = IF ensure.named THEN "indexes" ELSE "threw",
            !.ttlSeconds = ttlSeconds,
            !.existing = Undefined,
            !.before = {idx \in ensure.indexes : isCreatedAtTtl(idx)},
            !.log = <<>>,
            !.result = Undefined,
            !.previous = IF ensure.pc = "done" THEN Some(ensure.ttlSeconds) ELSE Undefined]
    /\ EnsureFrame

\* coll.indexes() has answered: pick the existing index and the branch
EnsureIndexes ==
    /\ ensure.pc = "indexes"
    /\ LET existing == findExisting(ensure.indexes)
           action == ensureAction(existing, ensure.ttlSeconds)
       IN  ensure' =
             [ensure EXCEPT
                !.existing = existing,
                !.pc = CASE action = "created" -> "createIndex"
                         [] action = "updated" -> "dropIndex"
                         [] OTHER -> "done",
                !.result = IF action = "unchanged"
                           THEN Some([action |-> action, name |-> indexName(existing),
                                      expireAfterSeconds |->
                                        ValueOf(ValueOf(existing).expireAfterSeconds)])
                           ELSE Undefined]
    /\ EnsureFrame

\* await coll.dropIndex(String(existing.name))
EnsureDropIndex ==
    /\ ensure.pc = "dropIndex"
    /\ ensure' = [ensure EXCEPT
                    !.indexes = dropIndex(@, ValueOf(ensure.existing).name),
                    !.log = Append(@, "dropIndex"),
                    !.pc = "createIndex"]
    /\ EnsureFrame

\* await coll.createIndex(...); return created or updated
EnsureCreateIndex ==
    /\ ensure.pc = "createIndex"
    /\ ensure' = [ensure EXCEPT
                    !.indexes = createIndex(@, indexName(ensure.existing), ensure.ttlSeconds),
                    !.log = Append(@, "createIndex"),
                    !.pc = "done",
                    !.result = Some([action |-> ensureAction(ensure.existing, ensure.ttlSeconds),
                                     name |-> indexName(ensure.existing),
                                     expireAfterSeconds |-> ensure.ttlSeconds])]
    /\ EnsureFrame

InitEnsure ==
    /\ env \in {e \in Envs : e.DB_DRIVER = Undefined /\ e.OTP_EXPIRY = Undefined}
    /\ hasMongo = TRUE
    /\ limiter = NoLimiterOptions
    /\ InitStorage
    /\ maker = IdleMaker
    /\ auth = IdleAuth
    /\ mail = IdleMail
    /\ legacy = IdleLegacy
    /\ ensure \in {[IdleEnsure EXCEPT !.named = named, !.indexes = indexes] :
                     named \in BOOLEAN, indexes \in InitialIndexes}

NextEnsure ==
    \/ \E ttlSeconds \in TtlValues : EnsureCall(ttlSeconds)
    \/ EnsureIndexes
    \/ EnsureDropIndex
    \/ EnsureCreateIndex

SpecEnsure == InitEnsure /\ [][NextEnsure]_vars

\* the TTL indexes on createdAt that the collection has
TtlIndexes == {idx \in ensure.indexes : isCreatedAtTtl(idx)}

\* C33: a call that returned answered created after one createIndex and no drop
\* when there was no TTL index on createdAt, updated after one dropIndex then
\* one createIndex when there was one with another expireAfterSeconds, and
\* unchanged after no drop and no create when there was one equal to ttl; after
\* it the TTL index has expireAfterSeconds = ttl, and a call that follows a
\* returned call with the same ttl answers unchanged.
C33_EnsureConverges ==
    ensure.pc = "done" =>
        LET action == ValueOf(ensure.result).action
            ttl == ensure.ttlSeconds
        IN  /\ ensure.before = {}
               => action = "created" /\ ensure.log = <<"createIndex">>
            /\ ( /\ ensure.before # {}
                 /\ \A idx \in ensure.before : ValueOf(idx.expireAfterSeconds) # ttl )
               => action = "updated" /\ ensure.log = <<"dropIndex", "createIndex">>
            /\ (\E idx \in ensure.before : ValueOf(idx.expireAfterSeconds) = ttl)
               => action = "unchanged" /\ ensure.log = <<>>
            /\ TtlIndexes # {}
            /\ \A idx \in TtlIndexes : idx.expireAfterSeconds = Some(ttl)
            /\ ValueOf(ensure.result).expireAfterSeconds = ttl
            /\ ensure.previous = Some(ttl) => action = "unchanged"

\* a second call with the ttl of the first, which had replaced an index of
\* another name and another ttl, has answered unchanged
C33_Witness ==
    /\ ensure.pc = "done"
    /\ ensure.previous = Some(ensure.ttlSeconds)
    /\ ValueOf(ensure.result).action = "unchanged"
    /\ ensure.ttlSeconds = 1800
    /\ TtlIndexes = {Index("createdAt_1", "createdAt", Some(1800))}

---------------------------------------------------------------------------
(* Claims about the counts of creates and validations, embedded backend       *)

\* the matching rows stored for the attempt
Stored(a) == MatchingRows(otp, a.contact, a.otp)

\* every call so far was made after the one before it had returned: only the
\* first slot was ever used
Serial == \A q \in Slots \ {1} : calls[q].pc = "idle"

\* what is stored for an attempt is what was created less what was consumed
C34_Balance ==
    \A a \in Attempts :
        /\ won[<<"sqlite", a>>] <= created[<<"sqlite", a>>]
        /\ won[<<"sqlite", a>>] + Cardinality(Stored(a)) = created[<<"sqlite", a>>]

\* sequential calls: the SELECT finds a row exactly while fewer calls have been
\* answered ok or expired than creates completed, and the DELETE that follows
\* is answered ok or expired
C34_SerialStep ==
    Serial =>
        LET c == calls[1]
            k == KeyOf(c)
        IN  /\ Select(1) =>
                 IF won[k] < created[k]
                 THEN calls'[1].pc = "delete"
                 ELSE calls'[1].pc = "resolved" /\ calls'[1].status = "not_found"
            /\ Delete(1) =>
                 /\ calls'[1].status \in {"ok", "expired"}
                 /\ won'[k] = won[k] + 1

\* C34: conservation of codes. Under any interleaving of create and
\* validateStatus calls, the calls answered ok or expired for a (contact, code)
\* never outnumber the creates completed for it; and with sequential calls, n
\* creates of the same (contact, code) give ok or expired to exactly n
\* validations and not_found to the next one.
C34_Conservation == [](C34_Balance) /\ [][C34_SerialStep]_vars

\* the third sequential call for a pair created twice has returned not_found
C34_Witness ==
    /\ Serial
    /\ calls[1].pc = "done" /\ calls[1].result = "not_found"
    /\ created[KeyOf(calls[1])] = 2
    /\ won[KeyOf(calls[1])] = 2

\* the row the call selected is no longer stored
SelectedGone(c) == \A r \in otp : r.id # ValueOf(c.row).id

\* after the step a matching row older than the one the call selected is stored
OlderStored(c) ==
    \E r \in MatchingRows(otp', c.contact, c.otp) : r.id < ValueOf(c.row).id

\* C35 as stated: with two or more matching records stored and as many calls
\* running concurrently, no call is answered not_found while a matching record
\* that was stored before its SELECT is still stored.
C35_NoneTurnedAway ==
    [][\A p \in Slots :
         Delete(p) /\ calls'[p].status = "not_found" => ~OlderStored(calls[p])]_vars

\* how the DELETE of a call is answered: not_found exactly when the row it
\* selected is gone, whatever else is stored
C35_Step ==
    \A p \in Slots :
        Delete(p) => (calls'[p].status = "not_found") = SelectedGone(calls[p])

\* of the concurrent calls for a pair created twice, at least one won
C35_SomeWinner ==
    \A k \in {"sqlite"} \X Attempts :
        (RaceFor(k) /\ created[k] = 2) => Winners # {}

\* C35 as the code has it: every concurrent call selects the newest matching
\* record; the call whose DELETE finds that record already deleted by another
\* call is answered not_found although older matching records are still
\* stored, and at least one of the calls is answered ok or expired.
C35_LoserTurnedAway == [](C35_SomeWinner) /\ [][C35_Step]_vars

\* a call lost the race for the newest of two records and returned not_found
\* while the older record is still stored
C35_Witness ==
    \E p \in Slots :
        /\ calls[p].pc = "done" /\ calls[p].result = "not_found" /\ calls[p].lostRace
        /\ created[KeyOf(calls[p])] = 2
        /\ won[KeyOf(calls[p])] = 1
        /\ calls[p].sawCreate
        /\ MatchingRows(otp, calls[p].contact, calls[p].otp) # {}
        /\ \A r \in otp : r.id = 1

---------------------------------------------------------------------------
(* Claims about the in-memory limiter behind the engine and on its own        *)

\* C36: with the in-memory limiter behind the engine and max >= 1, under any
\* interleaving of validateStatus calls for a contact the failure history
\* stored for the contact never holds more than max timestamps.
C36_HistoryWithinMax ==
    \A contact \in Contacts :
        limiter.max >= 1 => Len(bucket(attempts, contact).times) <= limiter.max

\* a bucket with max or more failures inside the window has its cooldown set
C37_FullBucketCools ==
    \A contact \in Contacts :
        (limiter.max >= 1 /\ RecentFailures(attempts, contact, clock) >= limiter.max)
        => CooldownSet(bucket(attempts, contact))

\* beforeValidate answers false only to a contact whose cooldown is running
C37_Step ==
    \A contact \in Contacts :
        (limiter.max >= 1 /\ LimiterBefore(contact) /\ ~ValueOf(asked').allowed)
        => InCooldown(attempts, contact, clock)

\* C37: in-memory limiter with max >= 1: beforeValidate returns false only
\* while a cooldown is active (cooldownUntil > now), and in every reachable
\* state a bucket with max or more failures inside the window has cooldownUntil
\* set: no contact is blocked without an active cooldown.
C37_BlockedOnlyCooling == [](C37_FullBucketCools) /\ [][C37_Step]_vars

\* a contact was refused with two failures stored and its cooldown running
C37_Witness ==
    /\ IsDefined(asked)
    /\ ~ValueOf(asked).allowed
    /\ ValueOf(asked).now = clock
    /\ limiter.max = 2
    /\ Len(bucket(attempts, ValueOf(asked).contact).times) = 2
    /\ InCooldown(attempts, ValueOf(asked).contact, clock)

\* the timestamps of a history
Stamps(b) == {b.times[i] : i \in 1..Len(b.times)}

\* a call of the engine that is refused leaves the cooldown as it was and adds
\* no failure; a call that starts at or after cooldownUntil is allowed
C38_Step ==
    \A p \in Slots :
        Starts(p) =>
            LET contact == calls'[p].contact
                b  == bucket(attempts, contact)
                b2 == bucket(attempts', contact)
            IN  /\ calls'[p].result = "blocked" =>
                     /\ b2.cooldownUntil = b.cooldownUntil
                     /\ Len(b2.times) <= Len(b.times)
                     /\ Stamps(b2) \subseteq Stamps(b)
                /\ (limiter.max >= 1 /\ CooldownElapsed(attempts, contact, clock))
                   => calls'[p].allowed /\ calls'[p].result # "blocked"

\* C38: blocked attempts do not prolong the lock-out: a beforeValidate that
\* returns false leaves cooldownUntil unchanged and records no failure, so with
\* max >= 1 a cooling contact is allowed again by the first call made at or
\* after cooldownUntil, however many calls were blocked in between.
C38_BlockedDoesNotProlong == [][C38_Step]_vars

\* a call made once the cooldown was over was allowed, after a call that had
\* been refused during the cooldown
C38_Witness ==
    \E p, q \in Slots :
        /\ calls[p].limited = "released" /\ calls[p].allowed
        /\ calls[p].pc \notin {"idle", "done"}
        /\ calls[q].pc = "done" /\ calls[q].result = "blocked"
        /\ calls[q].contact = calls[p].contact

---------------------------------------------------------------------------
(* One InMemoryRateLimiter asked about two contacts                           *)

BothContacts == Contacts \cup {"c@d.com"}

SharedLimiters ==
    [kind : {"inmem"}, max : {1, 2}, windowMs : {TickMs}, cooldownMs : {TickMs}]

InitShared ==
    /\ env \in {e \in Envs : e.DB_DRIVER = Undefined /\ e.OTP_EXPIRY = Undefined}
    /\ hasMongo = FALSE
    /\ limiter \in SharedLimiters
    /\ InitStorageOf(BothContacts)
    /\ maker = IdleMaker
    /\ auth = IdleAuth
    /\ mail = IdleMail
    /\ legacy = IdleLegacy
    /\ ensure = IdleEnsure

NextShared ==
    \/ \E contact \in BothContacts : LimiterBefore(contact)
    \/ \E contact \in BothContacts : LimiterFailure(contact)
    \/ \E contact \in BothContacts : LimiterSuccess(contact)
    \/ Tick

SpecShared == InitShared /\ [][NextShared]_vars

\* the limiter's map with every bucket but the contact's forgotten
OnlyOf(contact) == [c \in BothContacts |-> IF c = contact THEN attempts[c] ELSE NoBucket]

\* C39: per-contact isolation: beforeValidate, onFailure and onSuccess for a
\* contact never change the bucket of another contact, and the answer given to
\* a contact is the one its own bucket and the clock give, whatever the other
\* buckets hold.
C39_Isolation ==
    [][\A contact \in BothContacts :
         /\ LimiterBefore(contact) \/ LimiterFailure(contact) \/ LimiterSuccess(contact)
            => \A other \in BothContacts \ {contact} : attempts'[other] = attempts[other]
         /\ LimiterBefore(contact)
            => ValueOf(asked').allowed
                 = (IF InCooldown(OnlyOf(contact), contact, clock) THEN FALSE
                    ELSE IF CooldownElapsed(OnlyOf(contact), contact, clock) THEN 0 < limiter.max
                    ELSE RecentFailures(OnlyOf(contact), contact, clock) < limiter.max)]_vars

\* one contact is refused in its cooldown and the other, with a failure of
\* its own, has just been allowed
C39_Witness ==
    /\ IsDefined(asked)
    /\ ValueOf(asked).contact = "c@d.com"
    /\ ValueOf(asked).allowed
    /\ ValueOf(asked).now = clock
    /\ Len(bucket(attempts, "c@d.com").times) = 1
    /\ InCooldown(attempts, "a@b.com", clock)

---------------------------------------------------------------------------
(* Where the embedded adapter takes its TTL from                              *)

\* the OTP_EXPIRY texts that Number() turns into a finite number, and the number
EnvSeconds ==
    CASE env.OTP_EXPIRY = Some("1")  -> Some(1)
      [] env.OTP_EXPIRY = Some("0")  -> Some(0)
      [] env.OTP_EXPIRY = Some("-1") -> Some(0 - 1)
      [] env.OTP_EXPIRY = Some("")   -> Some(0)
      [] OTHER -> Undefined

\* the answer for a consumed record of the given age under a ttl
AnswerUnder(ttl, age) == IF ttl > 0 /\ age > ttl * 1000 THEN "expired" ELSE "ok"

\* C40: the DELETE of a call that consumes a record is answered under
\* OTP_EXPIRY whenever that is a finite number, whatever ttlSeconds was given
\* (zero and negative values disable the check), and under the ttlSeconds
\* argument only when OTP_EXPIRY is absent or not a finite number.
C40_TtlSource ==
    [][\A p \in Slots :
         (Delete(p) /\ calls'[p].deleted = calls[p].deleted + 1) =>
            LET c == calls[p]
                age == c.now - ValueOf(c.row).createdAt
            IN  calls'[p].status =
                  (IF IsDefined(EnvSeconds) THEN AnswerUnder(ValueOf(EnvSeconds), age)
                   ELSE IF PositiveFinite(c.ttlSeconds)
                        THEN AnswerUnder(ValueOf(c.ttlSeconds).n, age)
                        ELSE "ok")]_vars

\* under OTP_EXPIRY=-1 a call given ttlSeconds = 1 consumed a record older
\* than one second and reported ok
C40_Witness ==
    \E p \in Slots :
        /\ calls[p].pc = "resolved" /\ calls[p].deleted = 1
        /\ env.OTP_EXPIRY = Some("-1")
        /\ calls[p].ttlSeconds = Some([finite |-> TRUE, n |-> 1])
        /\ calls[p].now - ValueOf(calls[p].row).createdAt > 1000
        /\ calls[p].status = "ok"

====
